---- MODULE Spec2Model ----
(***************************************************************************)
(* RidePy ride-pooling simulator: the fleet coordinator (FleetState), the  *)
(* per-vehicle stoplist state machine (VehicleState), the brute-force      *)
(* insertion dispatcher and the square-grid transport space.               *)
(*                                                                         *)
(* Times and distances are integers: the square grid is instantiated with  *)
(* grid size 4 and velocity 2, so every travel time is an even integer and *)
(* every interpolation residual is 0 or 1 time unit.  INFINITY is a value  *)
(* far above every finite time the model can build.                        *)
(***************************************************************************)
EXTENDS Integers, Sequences, FiniteSets, TLC

\* ---------------------------------------------------------------- bounds
NumVehicles == 2
MaxTime == 2

\* ------------------------------------------------------ program constants
m_gridSize == 4
m_velocity == 2
INFINITY == 1000
seat_capacity == 1

\* ------------------------------------------------------------- utilities
Max(a, b) == IF a >= b THEN a ELSE b

Abs(a) == IF a >= 0 THEN a ELSE 0 - a

\* 0-based element access, as the C++ code indexes vectors
At(sl, i) == sl[i + 1]

\* seq with element e inserted so that it ends up at 0-based position pos
InsertAt(sl, pos, e) == SubSeq(sl, 1, pos) \o <<e>> \o SubSeq(sl, pos + 1, Len(sl))

\* ------------------------------------------------------ transport spaces
VARIABLES
    space,                           \* the TransportSpace the fleet, the vehicles and the
                                     \* dispatchers work on
    calls                            \* the calls in flight on a space that is called
                                     \* directly: their arguments, position and result;
                                     \* for a fleet that keeps a log, its entries

SquareGrid(gridSize, velocity) ==
    [kind |-> "SquareGrid", m_gridSize |-> gridSize, m_velocity |-> velocity]

Euclidean2D(velocity) == [kind |-> "Euclidean2D", m_velocity |-> velocity]

\* a location of the plane; a location of the grid is the pair <<first, second>>
R2loc(first, second) == <<first, second, "R2loc">>

\* sqrt, on the squares
sqrt(x) == CHOOSE r \in 0..x : r * r = x

\* Euclidean2D::t for the velocity 1: abs(origin-destination)/m_velocity
Euclidean2D_t(origin, destination) ==
    sqrt((origin[1] - destination[1]) * (origin[1] - destination[1])
            + (origin[2] - destination[2]) * (origin[2] - destination[2]))

\* SquareGrid::d
d(origin, destination) ==
    m_gridSize * (Abs(origin[1] - destination[1]) + Abs(origin[2] - destination[2]))

\* TransportSpace<Loc>::t: programs over I2loc work on the square grid of the
\* test program, programs over R2loc on the plane
t(origin, destination) ==
    IF Len(origin) = 3 THEN Euclidean2D_t(origin, destination)
    ELSE d(origin, destination) \div m_velocity

\* a count of edges that takes a begun edge for a full one
begun_edges(dist_to_dest, gridSize) == (dist_to_dest + gridSize - 1) \div gridSize

\* floor(dist_to_dest/m_gridSize)
full_edges(dist_to_dest, gridSize) == dist_to_dest \div gridSize

\* a step that leads away from the origin
away_from_origin(origin_coordinate, destination_coordinate) ==
    IF origin_coordinate < destination_coordinate THEN 1 ELSE 0 - 1

\* (origin.second < destination.second ? -1 : +1), likewise for first: the step
\* from the destination back towards the origin
towards_origin(origin_coordinate, destination_coordinate) ==
    IF origin_coordinate < destination_coordinate THEN 0 - 1 ELSE 1

SquareGrid_interp_dist(gridSize, origin, destination, dist_to_dest) ==
    LET remaining_full_edges == full_edges(dist_to_dest, gridSize)
        dist_to_next_loc == dist_to_dest - remaining_full_edges * gridSize
        second_dimension_dist == Abs(destination[2] - origin[2])
        sgn2 == towards_origin(origin[2], destination[2])
        sgn1 == towards_origin(origin[1], destination[1])
    IN  IF remaining_full_edges < second_dimension_dist
        THEN [previousLocation |-> <<destination[1], destination[2] + sgn2 * (remaining_full_edges + 1)>>,
              nextLocation |-> <<destination[1], destination[2] + sgn2 * remaining_full_edges>>,
              distance |-> dist_to_next_loc]
        ELSE LET remaining_full_edges_first_direction == remaining_full_edges - second_dimension_dist
             IN [previousLocation |-> <<destination[1] + sgn1 * (remaining_full_edges_first_direction + 1), origin[2]>>,
                 nextLocation |-> <<destination[1] + sgn1 * remaining_full_edges_first_direction, origin[2]>>,
                 distance |-> dist_to_next_loc]

\* interp_dist and interp_time of the square grid of the test program
interp_dist(origin, destination, dist_to_dest) ==
    SquareGrid_interp_dist(m_gridSize, origin, destination, dist_to_dest)

interp_time(origin, destination, time_to_dest) ==
    LET interp == interp_dist(origin, destination, time_to_dest * m_velocity)
    IN  [interp EXCEPT !.distance = interp.distance \div m_velocity]

\* ------------------------------------------------------------------ Stop
Stop(location, request_id, action, eat, occupancy, tw_min, tw_max) ==
    [location |-> location, request_id |-> request_id, action |-> action,
     estimated_arrival_time |-> eat, occupancy_after_servicing |-> occupancy,
     time_window_min |-> tw_min, time_window_max |-> tw_max]

estimated_departure_time(stop) == Max(stop.estimated_arrival_time, stop.time_window_min)

TransportationRequest(request_id, origin, destination, pu_min, pu_max, do_min, do_max) ==
    [request_id |-> request_id, origin |-> origin, destination |-> destination,
     pickup_timewindow_min |-> pu_min, pickup_timewindow_max |-> pu_max,
     delivery_timewindow_min |-> do_min, delivery_timewindow_max |-> do_max]

\* ------------------------------------------------- dispatcher utilities
cpat_of_inserted_stop(stop_before, time_from_stop_before, delta_cpat) ==
    Max(stop_before.estimated_arrival_time + delta_cpat, stop_before.time_window_min)
        + time_from_stop_before

time_to_stop_after_insertion(stoplist, location, index) ==
    IF index < Len(stoplist) - 1 THEN t(location, At(stoplist, index + 1).location) ELSE 0

time_from_current_stop_to_next(stoplist, i) ==
    IF i < Len(stoplist) - 1 THEN t(At(stoplist, i).location, At(stoplist, i + 1).location) ELSE 0

\* the loop of is_timewindow_violated_dueto_insertion from stop k on
RECURSIVE ViolationLoop(_, _, _)
ViolationLoop(stoplist, k, delta_cpat) ==
    IF k > Len(stoplist) - 1 THEN FALSE
    ELSE LET stop == At(stoplist, k)
             old_leeway == stop.time_window_max - stop.estimated_arrival_time
             new_leeway == old_leeway - delta_cpat
         IN  IF new_leeway < 0 /\ new_leeway < old_leeway THEN TRUE
             ELSE IF stop.time_window_min >= stop.estimated_arrival_time + delta_cpat THEN FALSE
             ELSE ViolationLoop(stoplist, k + 1,
                      Max(stop.time_window_min, stop.estimated_arrival_time + delta_cpat)
                        - Max(stop.time_window_min, stop.estimated_arrival_time))

is_timewindow_violated_dueto_insertion(stoplist, idx, est_arrival_first_stop_after_insertion) ==
    IF idx > Len(stoplist) - 2 THEN FALSE
    ELSE IF est_arrival_first_stop_after_insertion <= At(stoplist, idx + 1).estimated_arrival_time
    THEN FALSE
    ELSE ViolationLoop(stoplist, idx + 1,
             est_arrival_first_stop_after_insertion - At(stoplist, idx + 1).estimated_arrival_time)

\* the loop of insert_stop_to_stoplist_drive_first over the later stops: every
\* visited stop is shifted by the delay computed before the loop (the loop's own
\* delta_cpat_next_stop is a fresh variable that only decides the break)
RECURSIVE UpdateLaterStops(_, _, _)
UpdateLaterStops(stoplist, k, delta_cpat_next_stop) ==
    IF k > Len(stoplist) - 1 THEN stoplist
    ELSE LET later_stop == At(stoplist, k)
             old_departure == estimated_departure_time(later_stop)
             shifted == [later_stop EXCEPT !.estimated_arrival_time = @ + delta_cpat_next_stop]
             new_departure == estimated_departure_time(shifted)
             updated == [stoplist EXCEPT ![k + 1] = shifted]
         IN  IF new_departure - old_departure = 0 THEN updated
             ELSE UpdateLaterStops(updated, k + 1, delta_cpat_next_stop)

insert_stop_to_stoplist_drive_first(stoplist, stop, idx) ==
    LET stop_before_insertion == At(stoplist, idx)
        time_to_new_stop == t(stop_before_insertion.location, stop.location)
        cpat_new_stop == cpat_of_inserted_stop(stop_before_insertion, time_to_new_stop, 0)
        new_stop == [stop EXCEPT !.estimated_arrival_time = cpat_new_stop]
        later == IF idx < Len(stoplist) - 1
                 THEN LET cpat_next_stop == estimated_departure_time(new_stop)
                                              + t(new_stop.location, At(stoplist, idx + 1).location)
                      IN UpdateLaterStops(stoplist, idx + 1,
                             cpat_next_stop - At(stoplist, idx + 1).estimated_arrival_time)
                 ELSE stoplist
    IN  InsertAt(later, idx + 1, new_stop)

insert_request_to_stoplist_drive_first(stoplist, request, pickup_idx, dropoff_idx) ==
    LET stop_before_pickup == At(stoplist, pickup_idx)
        cpat_at_pu == estimated_departure_time(stop_before_pickup)
                        + t(stop_before_pickup.location, request.origin)
        pickup_stop == Stop(request.origin, request.request_id, "PICKUP", cpat_at_pu,
                            stop_before_pickup.occupancy_after_servicing + 1,
                            request.pickup_timewindow_min, request.pickup_timewindow_max)
        occupied == [k \in 1..Len(stoplist) |->
                        IF k - 1 >= pickup_idx + 1 /\ k - 1 < dropoff_idx + 1
                        THEN [stoplist[k] EXCEPT !.occupancy_after_servicing = @ + 1]
                        ELSE stoplist[k]]
        with_pickup == insert_stop_to_stoplist_drive_first(occupied, pickup_stop, pickup_idx)
        stop_before_dropoff == At(with_pickup, dropoff_idx + 1)
        cpat_at_do == estimated_departure_time(stop_before_dropoff)
                        + t(stop_before_dropoff.location, request.destination)
        dropoff_stop == Stop(request.destination, request.request_id, "DROPOFF", cpat_at_do,
                             stop_before_dropoff.occupancy_after_servicing - 1,
                             request.delivery_timewindow_min, request.delivery_timewindow_max)
    IN  insert_stop_to_stoplist_drive_first(with_pickup, dropoff_stop, dropoff_idx + 1)

\* ------------------------------------------- brute-force dispatcher
\* a comparison that lets a later pair of equal cost replace the best one
does_not_worsen(total_cost, min_cost) == total_cost <= min_cost

\* the comparison that decides whether a pair replaces the best one so far
improves(total_cost, min_cost) == total_cost < min_cost

\* a request of one passenger cannot board after a stop that leaves no seat
never_full(stop, capacity) == FALSE

is_full(stop, capacity) == stop.occupancy_after_servicing = capacity

\* the inner loop (dropoff not immediately after the pickup); acc carries
\* min_cost and best_insertion, j is the index of stop_before_dropoff
RECURSIVE DropoffLoop(_, _, _, _, _, _, _, _)
DropoffLoop(request, stoplist, capacity, i, j, delta_cpat, pickup_cost, acc) ==
    IF j > Len(stoplist) - 1 THEN acc
    ELSE LET stop_before_dropoff == At(stoplist, j)
         IN  IF is_full(stop_before_dropoff, capacity) THEN acc
             ELSE LET time_to_dropoff == t(stop_before_dropoff.location, request.destination)
                      CPAT_do == cpat_of_inserted_stop(stop_before_dropoff, time_to_dropoff, delta_cpat)
                  IN  IF CPAT_do > request.delivery_timewindow_max THEN acc
                      ELSE LET time_from_dropoff ==
                                   time_to_stop_after_insertion(stoplist, request.destination, j)
                               original_dropoff_edge_length ==
                                   time_from_current_stop_to_next(stoplist, j)
                               dropoff_cost ==
                                   time_to_dropoff + time_from_dropoff - original_dropoff_edge_length
                               total_cost == pickup_cost + dropoff_cost
                               cpat_at_next_stop ==
                                   Max(CPAT_do, request.delivery_timewindow_min) + time_from_dropoff
                               acc2 == IF improves(total_cost, acc.min_cost)
                                          /\ ~is_timewindow_violated_dueto_insertion(stoplist, j, cpat_at_next_stop)
                                       THEN [min_cost |-> total_cost, best_insertion |-> <<i, j>>]
                                       ELSE acc
                               new_departure_time ==
                                   Max(stop_before_dropoff.estimated_arrival_time + delta_cpat,
                                       stop_before_dropoff.time_window_min)
                           IN  DropoffLoop(request, stoplist, capacity, i, j + 1,
                                   new_departure_time - estimated_departure_time(stop_before_dropoff),
                                   pickup_cost, acc2)

\* the outer loop over stop_before_pickup = stoplist[i]
RECURSIVE PickupLoop(_, _, _, _, _)
PickupLoop(request, stoplist, capacity, i, acc) ==
    IF i > Len(stoplist) - 1 THEN acc
    ELSE LET stop_before_pickup == At(stoplist, i)
             time_to_pickup == t(stop_before_pickup.location, request.origin)
             CPAT_pu == cpat_of_inserted_stop(stop_before_pickup, time_to_pickup, 0)
             EAST_pu == request.pickup_timewindow_min
             CPAT_do == Max(EAST_pu, CPAT_pu) + t(request.origin, request.destination)
             time_to_dropoff == t(request.origin, request.destination)
             time_from_dropoff == time_to_stop_after_insertion(stoplist, request.destination, i)
             original_pickup_edge_length == time_from_current_stop_to_next(stoplist, i)
             total_cost == time_to_pickup + time_to_dropoff + time_from_dropoff
                             - original_pickup_edge_length
             cpat_after_dropoff == Max(CPAT_do, request.delivery_timewindow_min) + time_from_dropoff
             acc2 == IF improves(total_cost, acc.min_cost)
                        /\ ~is_timewindow_violated_dueto_insertion(stoplist, i, cpat_after_dropoff)
                     THEN [min_cost |-> total_cost, best_insertion |-> <<i, i>>]
                     ELSE acc
             time_from_pickup == time_to_stop_after_insertion(stoplist, request.origin, i)
             cpat_at_next_stop == Max(CPAT_pu, request.pickup_timewindow_min) + time_from_pickup
             pickup_cost == time_to_pickup + time_from_pickup - original_pickup_edge_length
             delta_cpat == IF i < Len(stoplist) - 1
                           THEN cpat_at_next_stop - At(stoplist, i + 1).estimated_arrival_time
                           ELSE 0
         IN  IF is_full(stop_before_pickup, capacity)
                 THEN PickupLoop(request, stoplist, capacity, i + 1, acc)
             ELSE IF CPAT_pu > request.pickup_timewindow_max
                 THEN PickupLoop(request, stoplist, capacity, i + 1, acc)
             ELSE IF CPAT_do > request.delivery_timewindow_max
                 THEN PickupLoop(request, stoplist, capacity, i + 1, acc)
             ELSE IF is_timewindow_violated_dueto_insertion(stoplist, i, cpat_at_next_stop)
                 THEN PickupLoop(request, stoplist, capacity, i + 1, acc2)
             ELSE PickupLoop(request, stoplist, capacity, i + 1,
                      DropoffLoop(request, stoplist, capacity, i, i + 1, delta_cpat, pickup_cost, acc2))

brute_force_total_traveltime_minimizing_dispatcher(request, stoplist, capacity) ==
    LET found == PickupLoop(request, stoplist, capacity, 0,
                            [min_cost |-> INFINITY, best_insertion |-> <<0, 0>>])
    IN  IF found.min_cost < INFINITY
        THEN LET best_pickup_idx == found.best_insertion[1]
                 best_dropoff_idx == found.best_insertion[2]
                 new_stoplist == insert_request_to_stoplist_drive_first(
                                     stoplist, request, best_pickup_idx, best_dropoff_idx)
             IN  [new_stoplist |-> new_stoplist, min_cost |-> found.min_cost,
                  EAST_pu |-> At(new_stoplist, best_pickup_idx + 1).time_window_min,
                  LAST_pu |-> At(new_stoplist, best_pickup_idx + 1).time_window_max,
                  EAST_do |-> At(new_stoplist, best_dropoff_idx + 2).time_window_min,
                  LAST_do |-> At(new_stoplist, best_dropoff_idx + 2).time_window_max]
        ELSE [new_stoplist |-> <<>>, min_cost |-> found.min_cost,
              EAST_pu |-> "NAN", LAST_pu |-> "NAN", EAST_do |-> "NAN", LAST_do |-> "NAN"]

\* ------------------------------------------- simple ellipse dispatcher
\* the default of the parameter max_relative_detour
max_relative_detour == 0

\* the call sites of the lambda relative_detour
DetourSites == {"pickup", "dropoff_immediately", "dropoff_later"}

\* values a call of relative_detour may leave in the return register when it
\* flows off its end without a return statement
GarbageValues == {0, INFINITY}

Garbage == [DetourSites -> GarbageValues]

\* a quotient of two times, kept as numerator and denominator
Quotient(num, den) == <<num, den>>

\* the lambda relative_detour: the branch for an original edge of length zero
\* evaluates INFINITY and returns nothing
relative_detour(absolute_detour, original_edge_length, garbage_value) ==
    IF absolute_detour = 0 THEN Quotient(0, 1)
    ELSE IF original_edge_length = 0 THEN Quotient(garbage_value, 1)
    ELSE Quotient(absolute_detour, original_edge_length)

\* quotient > bound, for a positive denominator
exceeds(quotient, bound) == quotient[1] > bound * quotient[2]

\* the inner loop over the stops before the dropoff, from stop j on: the
\* index of the first stop after which the dropoff fits, -1 if the loop ends
\* or breaks without one
RECURSIVE EllipseDropoffLoop(_, _, _, _, _)
EllipseDropoffLoop(request, stoplist, capacity, j, garbage) ==
    IF j > Len(stoplist) - 2 THEN 0 - 1
    ELSE IF At(stoplist, j).occupancy_after_servicing = capacity THEN 0 - 1
    ELSE LET time_to_dropoff == t(At(stoplist, j).location, request.destination)
             time_from_dropoff == time_to_stop_after_insertion(stoplist, request.destination, j)
             original_dropoff_edge_length == time_from_current_stop_to_next(stoplist, j)
             dropoff_absolute_detour ==
                 time_to_dropoff + time_from_dropoff - original_dropoff_edge_length
         IN  IF exceeds(relative_detour(dropoff_absolute_detour, original_dropoff_edge_length,
                                        garbage["dropoff_later"]),
                        max_relative_detour)
             THEN EllipseDropoffLoop(request, stoplist, capacity, j + 1, garbage)
             ELSE j

\* the outer loop over the stops before the pickup, from stop i on
RECURSIVE EllipsePickupLoop(_, _, _, _, _)
EllipsePickupLoop(request, stoplist, capacity, i, garbage) ==
    IF i > Len(stoplist) - 2
    THEN [insertion_found |-> FALSE, min_cost |-> INFINITY, best_insertion |-> <<0, 0>>]
    ELSE IF At(stoplist, i).occupancy_after_servicing = capacity
    THEN EllipsePickupLoop(request, stoplist, capacity, i + 1, garbage)
    ELSE
      LET time_to_pickup == t(At(stoplist, i).location, request.origin)
          time_from_pickup == time_to_stop_after_insertion(stoplist, request.origin, i)
          original_pickup_edge_length == time_from_current_stop_to_next(stoplist, i)
          pickup_absolute_detour ==
              time_to_pickup + time_from_pickup - original_pickup_edge_length
          time_to_dropoff == t(request.origin, request.destination)
          time_from_dropoff == time_to_stop_after_insertion(stoplist, request.destination, i)
          dropoff_absolute_detour == time_to_dropoff + time_from_dropoff - time_from_pickup
          j == EllipseDropoffLoop(request, stoplist, capacity, i + 1, garbage)
          last_idx == Len(stoplist) - 1
      IN  IF exceeds(relative_detour(pickup_absolute_detour, original_pickup_edge_length,
                                     garbage["pickup"]),
                     max_relative_detour)
          THEN EllipsePickupLoop(request, stoplist, capacity, i + 1, garbage)
          ELSE IF ~exceeds(relative_detour(dropoff_absolute_detour, time_from_pickup,
                                           garbage["dropoff_immediately"]),
                           max_relative_detour)
          THEN [insertion_found |-> TRUE, min_cost |-> 0, best_insertion |-> <<i, i>>]
          ELSE IF j # 0 - 1
          THEN [insertion_found |-> TRUE, min_cost |-> 0, best_insertion |-> <<i, j>>]
          ELSE \* dropoff has to be appended
               [insertion_found |-> TRUE,
                min_cost |-> t(At(stoplist, last_idx).location, request.destination),
                best_insertion |-> <<i, last_idx>>]

simple_ellipse_dispatcher(request, stoplist, capacity, garbage) ==
    LET looped == EllipsePickupLoop(request, stoplist, capacity, 0, garbage)
        last_idx == Len(stoplist) - 1
        found == IF looped.insertion_found THEN looped
                 ELSE \* both pickup and dropoff have to be appended
                      [insertion_found |-> FALSE,
                       min_cost |-> t(At(stoplist, last_idx).location, request.origin)
                                      + t(request.origin, request.destination),
                       best_insertion |-> <<last_idx, last_idx>>]
    IN  IF found.min_cost < INFINITY
        THEN LET best_pickup_idx == found.best_insertion[1]
                 best_dropoff_idx == found.best_insertion[2]
                 new_stoplist == insert_request_to_stoplist_drive_first(
                                     stoplist, request, best_pickup_idx, best_dropoff_idx)
             IN  [new_stoplist |-> new_stoplist, min_cost |-> found.min_cost,
                  EAST_pu |-> At(new_stoplist, best_pickup_idx + 1).time_window_min,
                  LAST_pu |-> At(new_stoplist, best_pickup_idx + 1).time_window_max,
                  EAST_do |-> At(new_stoplist, best_dropoff_idx + 2).time_window_min,
                  LAST_do |-> At(new_stoplist, best_dropoff_idx + 2).time_window_max]
        ELSE [new_stoplist |-> <<>>, min_cost |-> found.min_cost,
              EAST_pu |-> "NAN", LAST_pu |-> "NAN", EAST_do |-> "NAN", LAST_do |-> "NAN"]

\* ======================================================================
\* The C++ dispatcher BruteForceTotalTravelTimeMinimizingDispatcher
\* ======================================================================

\* i > stoplist.size()-2 is compared in size_t: for a stoplist of fewer than
\* two stops the difference wraps around to a value that no index exceeds
exceeds_size_minus_2(stoplist, i) ==
    Len(stoplist) >= 2 /\ i > Len(stoplist) - 2

\* the loop over the stops after the insertion, it = stoplist[k]
RECURSIVE ViolatesLoop(_, _, _)
ViolatesLoop(stoplist, k, delay) ==
    IF k > Len(stoplist) - 1 THEN "violated"
    ELSE LET it == At(stoplist, k)
             old_leeway == it.time_window_max - it.estimated_arrival_time
             new_leeway == old_leeway - delay
         IN  IF new_leeway < 0 /\ new_leeway < old_leeway THEN "violated"
             ELSE IF k + 1 # Len(stoplist)
                  THEN IF it.estimated_arrival_time + delay <= it.time_window_min
                       THEN "ok"
                       ELSE LET new_departure ==
                                    Max(it.time_window_min, it.estimated_arrival_time + delay)
                            IN  ViolatesLoop(stoplist, k + 1,
                                    new_departure - estimated_departure_time(it))
                  ELSE ViolatesLoop(stoplist, k + 1, delay)

\* "ok" for return false, "violated" for return true, "out_of_range" when
\* stoplist.at(i+1) throws std::out_of_range
does_insertion_violates_any_timewindow(stoplist, i, est_arrival) ==
    IF exceeds_size_minus_2(stoplist, i) THEN "ok"
    ELSE IF i + 1 >= Len(stoplist) THEN "out_of_range"
    ELSE ViolatesLoop(stoplist, i + 1,
             est_arrival - At(stoplist, i + 1).estimated_arrival_time)

\* the inner loop over stop_before_dropoff = stoplist[j]; acc carries
\* min_cost, best_insertion and whether an exception left the function
RECURSIVE TryDropoffs(_, _, _, _, _, _, _, _)
TryDropoffs(request, stoplist, capacity, i, j, delay, pickup_cost, acc) ==
    LET n_stops == Len(stoplist)
    IN  IF j >= n_stops \/ acc.thrown THEN acc
        ELSE LET stop_before_dropoff == At(stoplist, j)
                 time_to_dropoff == t(stop_before_dropoff.location, request.destination)
                 cpat_do == Max(stop_before_dropoff.estimated_arrival_time + delay,
                                stop_before_dropoff.time_window_min) + time_to_dropoff
                 time_from_dropoff ==
                     IF i < n_stops - 1
                     THEN t(request.destination, At(stoplist, i + 1).location) ELSE 0
                 time_after_insertion == time_to_dropoff + time_from_dropoff
                 time_before_insertion ==
                     IF j < n_stops - 1
                     THEN t(At(stoplist, j).location, At(stoplist, j + 1).location) ELSE 0
                 dropoff_cost == time_after_insertion - time_before_insertion
                 total_cost == pickup_cost + dropoff_cost
                 cpat_at_next_stop ==
                     Max(cpat_do, request.delivery_timewindow_min) + time_from_dropoff
                 violates == does_insertion_violates_any_timewindow(stoplist, j, cpat_at_next_stop)
                 acc2 == IF total_cost < acc.min_cost
                         THEN IF violates = "out_of_range" THEN [acc EXCEPT !.thrown = TRUE]
                              ELSE IF violates = "ok"
                                   THEN [acc EXCEPT !.min_cost = total_cost,
                                                    !.best_insertion = <<i, j>>]
                                   ELSE acc
                         ELSE acc
                 new_departure_time ==
                     Max(stop_before_dropoff.estimated_arrival_time + delay,
                         stop_before_dropoff.time_window_min)
             IN  IF stop_before_dropoff.occupancy_after_servicing = capacity THEN acc
                 ELSE IF cpat_do > request.delivery_timewindow_max THEN acc
                 ELSE TryDropoffs(request, stoplist, capacity, i, j + 1,
                          new_departure_time - estimated_departure_time(stop_before_dropoff),
                          pickup_cost, acc2)

\* the outer loop over stop_before_pickup = stoplist[i]
RECURSIVE TryPickups(_, _, _, _, _)
TryPickups(request, stoplist, capacity, i, acc) ==
    LET n_stops == Len(stoplist)
    IN  IF i >= n_stops \/ acc.thrown THEN acc
        ELSE LET stop_before_pickup == At(stoplist, i)
                 time_to_pickup == t(stop_before_pickup.location, request.origin)
                 cpat_pu == estimated_departure_time(stop_before_pickup) + time_to_pickup
                 east_pu == request.pickup_timewindow_min
                 time_to_dropoff == t(request.origin, request.destination)
                 cpat_do == Max(east_pu, cpat_pu) + time_to_dropoff
                 time_from_dropoff ==
                     IF i < n_stops - 1
                     THEN t(request.destination, At(stoplist, i + 1).location) ELSE 0
                 time_after_insertion == time_to_pickup + time_to_dropoff + time_from_dropoff
                 time_before_insertion ==
                     IF i < n_stops - 1
                     THEN t(At(stoplist, i).location, At(stoplist, i + 1).location) ELSE 0
                 total_cost == time_after_insertion - time_before_insertion
                 cpat_after_dropoff ==
                     Max(cpat_do, request.delivery_timewindow_min) + time_from_dropoff
                 violates_immediately ==
                     does_insertion_violates_any_timewindow(stoplist, i, cpat_after_dropoff)
                 acc2 == IF total_cost < acc.min_cost
                         THEN IF violates_immediately = "out_of_range"
                              THEN [acc EXCEPT !.thrown = TRUE]
                              ELSE IF violates_immediately = "ok"
                                   THEN [acc EXCEPT !.min_cost = total_cost,
                                                    !.best_insertion = <<i, i>>]
                                   ELSE acc
                         ELSE acc
                 time_from_pickup ==
                     IF i < n_stops - 1
                     THEN t(request.origin, At(stoplist, i + 1).location) ELSE 0
                 cpat_at_next_stop ==
                     Max(cpat_pu, request.pickup_timewindow_min) + time_from_pickup
                 violates == does_insertion_violates_any_timewindow(stoplist, i, cpat_at_next_stop)
                 pickup_cost == time_to_pickup + time_from_pickup - time_before_insertion
                 delay == IF i < n_stops - 1
                          THEN cpat_at_next_stop - At(stoplist, i + 1).estimated_arrival_time
                          ELSE 0
             IN  IF stop_before_pickup.occupancy_after_servicing = capacity
                     THEN TryPickups(request, stoplist, capacity, i + 1, acc)
                 ELSE IF cpat_pu > request.pickup_timewindow_max
                     THEN TryPickups(request, stoplist, capacity, i + 1, acc)
                 ELSE IF cpat_do > request.delivery_timewindow_max
                     THEN TryPickups(request, stoplist, capacity, i + 1, acc)
                 ELSE IF acc2.thrown THEN acc2
                 ELSE IF violates = "out_of_range" THEN [acc2 EXCEPT !.thrown = TRUE]
                 ELSE IF violates = "violated"
                     THEN TryPickups(request, stoplist, capacity, i + 1, acc2)
                 ELSE TryPickups(request, stoplist, capacity, i + 1,
                          TryDropoffs(request, stoplist, capacity, i, i + 1, delay,
                                      pickup_cost, acc2))

\* update estimated_arrival_times for all following stops, it = new_stoplist[k]
RECURSIVE PropagateDelay(_, _, _)
PropagateDelay(new_stoplist, k, delay) ==
    IF k > Len(new_stoplist) - 1 \/ delay <= 0 THEN new_stoplist
    ELSE LET it == At(new_stoplist, k)
             old_departure == estimated_departure_time(it)
             moved == [it EXCEPT !.estimated_arrival_time = @ + delay]
             new_departure == estimated_departure_time(moved)
         IN  PropagateDelay([new_stoplist EXCEPT ![k + 1] = moved], k + 1,
                            new_departure - old_departure)

\* the stop that line 146 inserts at the dropoff position
inserted_at_dropoff(pickup_stop, dropoff_stop) == pickup_stop

\* the new stoplist built from best_insertion
BuildNewStoplist(request, stoplist, best_insertion) ==
    LET n_stops == Len(stoplist)
        pickup == best_insertion[1]
        stop_before_pickup == At(stoplist, pickup)
        cpat_at_pu == estimated_departure_time(stop_before_pickup)
                        + t(stop_before_pickup.location, request.origin)
        pickup_stop == Stop(request.origin, request.request_id, "PICKUP", cpat_at_pu,
                            stop_before_pickup.occupancy_after_servicing + 1,
                            request.pickup_timewindow_min, request.pickup_timewindow_max)
        with_pickup == InsertAt(stoplist, pickup + 1, pickup_stop)
        after_pickup ==
            IF pickup < n_stops - 1
            THEN LET cpat_after_pickup ==
                         estimated_departure_time(pickup_stop)
                           + t(pickup_stop.location, At(with_pickup, pickup + 2).location)
                 IN  PropagateDelay(with_pickup, pickup + 2,
                         cpat_after_pickup - At(with_pickup, pickup + 2).estimated_arrival_time)
            ELSE with_pickup
        dropoff == best_insertion[2] + 1
        stop_before_dropoff == At(after_pickup, dropoff)
        cpat_at_do == estimated_departure_time(stop_before_dropoff)
                        + t(stop_before_dropoff.location, request.destination)
        dropoff_stop == Stop(request.destination, request.request_id, "DROPOFF", cpat_at_do,
                             stop_before_dropoff.occupancy_after_servicing + 1,
                             request.delivery_timewindow_min, request.delivery_timewindow_max)
        with_dropoff == InsertAt(after_pickup, dropoff + 1,
                                 inserted_at_dropoff(pickup_stop, dropoff_stop))
    IN  IF dropoff < n_stops - 1
        THEN LET cpat_after_dropoff ==
                     estimated_departure_time(dropoff_stop)
                       + t(dropoff_stop.location, At(with_dropoff, dropoff + 2).location)
             IN  PropagateDelay(with_dropoff, dropoff + 2,
                     cpat_after_dropoff - At(with_dropoff, dropoff + 2).estimated_arrival_time)
        ELSE with_dropoff

TimeWindow(min, max) == [min |-> min, max |-> max]

\* operator(): the InsertionResult, or thrown when std::out_of_range left it
BruteForceTotalTravelTimeMinimizingDispatcher(request, stoplist, capacity) ==
    LET found == TryPickups(request, stoplist, capacity, 0,
                            [min_cost |-> INFINITY, best_insertion |-> <<0, 0>>,
                             thrown |-> FALSE])
    IN  IF found.thrown THEN [thrown |-> TRUE]
        ELSE IF found.min_cost >= INFINITY
        THEN [thrown |-> FALSE, new_stoplist |-> <<>>, min_cost |-> INFINITY,
              pickup_window |-> TimeWindow(INFINITY, INFINITY),
              dropoff_window |-> TimeWindow(INFINITY, INFINITY)]
        ELSE LET new_stoplist == BuildNewStoplist(request, stoplist, found.best_insertion)
                 pickup == found.best_insertion[1]
                 dropoff == found.best_insertion[2] + 1
             IN  [thrown |-> FALSE, new_stoplist |-> new_stoplist,
                  min_cost |-> found.min_cost,
                  pickup_window |-> TimeWindow(At(new_stoplist, pickup + 1).time_window_min,
                                               At(new_stoplist, pickup + 1).time_window_max),
                  dropoff_window |-> TimeWindow(At(new_stoplist, dropoff + 1).time_window_min,
                                                At(new_stoplist, dropoff + 1).time_window_max)]

\* the in-vehicle time window of a request in a proposed stoplist
RECURSIVE estimate_travel_time(_, _, _, _)
estimate_travel_time(stoplistRef, request, k, invehicle_time) ==
    IF k > Len(stoplistRef) THEN invehicle_time
    ELSE LET stop == stoplistRef[k]
         IN  estimate_travel_time(stoplistRef, request, k + 1,
                 IF stop.request_id = request.request_id
                 THEN IF stop.action = "PICKUP"
                      THEN [invehicle_time EXCEPT !.min = stop.estimated_arrival_time]
                      ELSE IF stop.action = "DROPOFF"
                           THEN [invehicle_time EXCEPT !.max = stop.estimated_arrival_time]
                           ELSE invehicle_time
                 ELSE invehicle_time)

\* ------------------------------------------------------------ the fleet
VehicleIds == 0..(NumVehicles - 1)

startLocation == <<0, 0>>

\* the request stream offered to the fleet: every request id names one request
RequestPool ==
    { TransportationRequest(0, <<0, 0>>, <<1, 0>>, 0, INFINITY, 0, INFINITY),
      TransportationRequest(1, <<0, 0>>, <<0, 1>>, 0, INFINITY, 0, INFINITY),
      TransportationRequest(2, <<1, 0>>, <<0, 0>>, 3, INFINITY, 0, 5),
      TransportationRequest(3, <<0, 1>>, <<0, 1>>, 0, INFINITY, 0, INFINITY) }

RequestIds == { r.request_id : r \in RequestPool }

RequestOf(id) == CHOOSE r \in RequestPool : r.request_id = id

VARIABLES
    stoplist,                        \* VehicleState::stoplist of every vehicle
    m_stoplist_new,                  \* VehicleState::m_stoplist_new of every vehicle
    m_currentTime,                   \* VehicleState::m_currentTime of every vehicle
    m_last_request,                  \* FleetState::m_last_request.request_id
    m_last_request_optimal_vehicle,  \* FleetState::m_last_request_optimal_vehicle
    crashed,                         \* the process died in undefined behaviour
    last,                            \* the most recent call and the event it returned
    ff_last,                         \* the most recent fast_forward: its time and events
    ff_since_submit,                 \* a fast_forward happened after the last submit
    superseded,                      \* ids offered since the last fast_forward and followed
                                     \* by a submit of another id
    committed,                       \* ids whose execute committed
    dispatch,                        \* one call of the dispatcher: its arguments and result
    vehicle                          \* one vehicle constructed with an initial stoplist

vars == <<stoplist, m_stoplist_new, m_currentTime, m_last_request,
          m_last_request_optimal_vehicle, crashed, last, ff_last, ff_since_submit,
          superseded, committed, dispatch, vehicle, space, calls>>

StopEvent(action, timestamp, requestId, vehicleId) ==
    [action |-> action, timestamp |-> timestamp, requestId |-> requestId, vehicleId |-> vehicleId]

Call(op, type, requestId) == [op |-> op, type |-> type, requestId |-> requestId]

\* returned: the vector fast_forward returned; emitted: the events of the vehicles'
\* fast_forward_time calls, vehicle after vehicle
\* previous_t, previous_size: the time of the call before and the number of events
\* it returned
FastForwardCall(new_time, returned, emitted, previous_t, previous_size) ==
    [t |-> new_time, returned |-> returned, emitted |-> emitted,
     previous_t |-> previous_t, previous_size |-> previous_size]

\* the fleet after FleetState's constructor
\* the space of the test program, called by nobody but the fleet
NoCalls == <<>>

InitSpace ==
    /\ space = SquareGrid(m_gridSize, m_velocity)
    /\ calls = NoCalls

FleetInit ==
    /\ stoplist = [v \in VehicleIds |->
                     <<Stop(startLocation, 0 - 1, "INTERNAL", 0, 0, 0, INFINITY)>>]
    /\ m_stoplist_new = [v \in VehicleIds |-> <<>>]
    /\ m_currentTime = [v \in VehicleIds |-> 0]
    /\ m_last_request = 0 - 1
    /\ m_last_request_optimal_vehicle = 0
    /\ crashed = FALSE
    /\ last = Call("construct", "EVENT", 0 - 1)
    /\ ff_last = FastForwardCall(0, <<>>, <<>>, 0, 0)
    /\ ff_since_submit = FALSE
    /\ superseded = {}
    /\ committed = {}

\* no dispatcher call is traced while the fleet runs
NoDispatch == [called |-> FALSE]

\* no single vehicle is constructed next to the fleet
NoVehicle == [constructed |-> FALSE]

Init ==
    /\ InitSpace
    /\ FleetInit
    /\ dispatch = NoDispatch
    /\ vehicle = NoVehicle

\* ------------------------------------------ VehicleState::fast_forward_time
\* a test that takes the arrival for the service and ignores the time window
is_reached(stop, new_time) == stop.estimated_arrival_time <= new_time

\* a service that does not wait for the time window to open
arrival_time(stop) == stop.estimated_arrival_time

\* double service_time = std::max(stop.estimated_arrival_time, stop.time_window.min)
service_time(stop) == Max(stop.estimated_arrival_time, stop.time_window_min)

\* the test that a stop is serviced by new_time
is_serviced(stop, new_time) ==
    Max(stop.estimated_arrival_time, stop.time_window_min) <= new_time

\* the events of the stops from 1-based position k on that are serviced by new_time
RECURSIVE ServicedEvents(_, _, _, _)
ServicedEvents(sl, k, vehicle_id, new_time) ==
    IF k > Len(sl) THEN <<>>
    ELSE LET stop == sl[k]
         IN  IF is_serviced(stop, new_time)
             THEN <<StopEvent(stop.action, service_time(stop), stop.request_id, vehicle_id)>>
                      \o ServicedEvents(sl, k + 1, vehicle_id, new_time)
             ELSE <<>>

\* a vehicle that keeps the stops it has serviced
keep_serviced_stops(sl, serviced_stops) == sl

\* stoplist.erase(stoplist.begin(), stoplist.begin() + serviced_stops):
\* the last serviced stop becomes the head
erase_serviced_stops(sl, serviced_stops) == SubSeq(sl, serviced_stops + 1, Len(sl))

fast_forward_time(sl, vehicle_id, new_time) ==
    LET stopEvents == ServicedEvents(sl, 2, vehicle_id, new_time)
        serviced_stops == Len(stopEvents)
        erased == erase_serviced_stops(sl, serviced_stops)
        moved == IF erased[1].estimated_arrival_time < new_time
                 THEN IF Len(erased) > 1
                      THEN LET nextLocTravelTime ==
                                   interp_time(erased[1].location, erased[2].location,
                                               erased[2].estimated_arrival_time - new_time)
                           IN  [erased EXCEPT ![1].location = nextLocTravelTime.nextLocation,
                                              ![1].estimated_arrival_time =
                                                  new_time + nextLocTravelTime.distance]
                      ELSE [erased EXCEPT ![1].estimated_arrival_time = new_time]
                 ELSE erased
    IN  [stoplist |-> moved, events |-> stopEvents]

\* a vehicle whose stoplist is empty reads stoplist[0] of an empty vector: the
\* build either dies there or touches no visible state
VehicleFastForward(v, new_time) ==
    IF Len(stoplist[v]) = 0
    THEN [stoplist |-> <<>>, events |-> <<>>]
    ELSE fast_forward_time(stoplist[v], v, new_time)

\* --------------------------------------------- FleetState::fast_forward
\* a fast_forward that keeps the pending offer
kept(request_id) == request_id

\* m_last_request.request_id after the invalidation at the end of fast_forward
invalidated(request_id) == 0 - 1

\* an insertion loop that stops at an event of the same timestamp
is_not_earlier(it, e) == it.timestamp >= e.timestamp

\* the comparison that stops the insertion loop at iterator it
is_later(it, e) == it.timestamp > e.timestamp

\* one pass of the insertion loop: e goes before the first event that is later
RECURSIVE InsertBeforeLater(_, _, _)
InsertBeforeLater(sortedEvents, k, e) ==
    IF k > Len(sortedEvents) THEN sortedEvents
    ELSE IF is_later(sortedEvents[k], e)
         THEN SubSeq(sortedEvents, 1, k - 1) \o <<e>> \o SubSeq(sortedEvents, k, Len(sortedEvents))
         ELSE InsertBeforeLater(sortedEvents, k + 1, e)

\* newEvents[k..] merged into sortedEvents.  On an empty list back() reads an
\* indeterminate event: garbage_later counts how many more times that read
\* compares as not earlier than the new event
RECURSIVE MergeEvents(_, _, _, _)
MergeEvents(sortedEvents, newEvents, k, garbage_later) ==
    IF k > Len(newEvents) THEN [sorted |-> sortedEvents, garbage_later |-> garbage_later]
    ELSE LET e == newEvents[k]
         IN  IF Len(sortedEvents) = 0
             THEN IF garbage_later > 0
                  THEN MergeEvents(sortedEvents, newEvents, k + 1, garbage_later - 1)
                  ELSE MergeEvents(<<e>>, newEvents, k + 1, 0)
             ELSE IF e.timestamp > sortedEvents[Len(sortedEvents)].timestamp
                  THEN MergeEvents(Append(sortedEvents, e), newEvents, k + 1, garbage_later)
                  ELSE MergeEvents(InsertBeforeLater(sortedEvents, 1, e), newEvents, k + 1,
                                   garbage_later)

RECURSIVE MergeVehicles(_, _, _, _)
MergeVehicles(ffs, v, sortedEvents, garbage_later) ==
    IF v > NumVehicles - 1 THEN sortedEvents
    ELSE LET m == MergeEvents(sortedEvents, ffs[v].events, 1, garbage_later)
         IN  MergeVehicles(ffs, v + 1, m.sorted, m.garbage_later)

RECURSIVE Emitted(_, _)
Emitted(ffs, v) ==
    IF v > NumVehicles - 1 THEN <<>> ELSE ffs[v].events \o Emitted(ffs, v + 1)

fleet_fast_forward(new_time) ==
    /\ ~crashed
    /\ LET ffs == [v \in VehicleIds |-> VehicleFastForward(v, new_time)]
           emitted == Emitted(ffs, 0)
       IN  /\ stoplist' = [v \in VehicleIds |-> ffs[v].stoplist]
           /\ m_currentTime' = [v \in VehicleIds |-> new_time]
           /\ m_last_request' = invalidated(m_last_request)
           /\ \E garbage_later \in 0..Len(emitted) :
                  ff_last' = FastForwardCall(new_time,
                                 MergeVehicles(ffs, 0, <<>>, garbage_later), emitted,
                                 ff_last.t, Len(ff_last.returned))
    /\ last' = Call("fast_forward", "STOP_EVENT", 0 - 1)
    /\ ff_since_submit' = TRUE
    /\ superseded' = {}
    /\ UNCHANGED <<m_stoplist_new, m_last_request_optimal_vehicle, crashed, committed,
                   dispatch, vehicle, space>>

fast_forward(new_time) ==
    /\ fleet_fast_forward(new_time)
    /\ UNCHANGED calls

\* fast_forward_time on a vehicle with an empty stoplist, the fatal outcome
fast_forward_crash(new_time) ==
    /\ ~crashed
    /\ \E v \in VehicleIds : Len(stoplist[v]) = 0
    /\ crashed' = TRUE
    /\ last' = Call("fast_forward", "CRASH", 0 - 1)
    /\ UNCHANGED <<stoplist, m_stoplist_new, m_currentTime, m_last_request,
                   m_last_request_optimal_vehicle, ff_since_submit, superseded, committed,
                   ff_last, dispatch, vehicle,
                   space, calls>>

\* ----------------------- VehicleState::handle_transportation_request_single_vehicle
m_dispatcher(request, sl, capacity) ==
    brute_force_total_traveltime_minimizing_dispatcher(request, sl, capacity)

handle_transportation_request_single_vehicle(v, request) ==
    LET insertion_result == m_dispatcher(request, stoplist[v], seat_capacity)
    IN  [vehicle_id |-> v, min_cost |-> insertion_result.min_cost,
         new_stoplist |-> insertion_result.new_stoplist]

\* a comparison that lets a later vehicle of equal cost replace the choice
is_not_dearer(cost, min_cost) == cost <= min_cost

\* the comparison of the loop that chooses the vehicle
is_cheaper(cost, min_cost) == cost < min_cost

\* the vehicle with minimal cost, the first one among equals; -1 if none is finite
RECURSIVE ChooseVehicle(_, _, _, _)
ChooseVehicle(solutions, i, min_cost, opt_vehicle) ==
    IF i > NumVehicles - 1 THEN [min_cost |-> min_cost, opt_vehicle |-> opt_vehicle]
    ELSE IF is_cheaper(solutions[i].min_cost, min_cost)
         THEN ChooseVehicle(solutions, i + 1, solutions[i].min_cost, i)
         ELSE ChooseVehicle(solutions, i + 1, min_cost, opt_vehicle)

\* ghost bookkeeping of a submit that returned: the pending offer of another id
\* is now an earlier offer, and the submitted id is the latest one
SupersededAfterSubmit(id) ==
    (superseded \cup (IF m_last_request # 0 - 1 /\ m_last_request # id
                      THEN {m_last_request} ELSE {})) \ {id}

\* ------------------------------ FleetState::submit_transportation_request
\* a submit that takes no request for trivial
never_trivial(request) == FALSE

\* the first guard of submit_transportation_request
is_trivial(request) == request.origin = request.destination

submit_trivial(request) ==
    /\ ~crashed
    /\ request.request_id \notin committed
    /\ is_trivial(request)
    /\ last' = Call("submit", "REQUESTREJECTION_EVENT", request.request_id)
    /\ ff_since_submit' = FALSE
    /\ superseded' = SupersededAfterSubmit(request.request_id)
    /\ UNCHANGED <<stoplist, m_stoplist_new, m_currentTime, m_last_request,
                   m_last_request_optimal_vehicle, crashed, committed, ff_last, dispatch, vehicle,
                   space, calls>>

submit_transportation_request(request) ==
    /\ ~crashed
    /\ request.request_id \notin committed
    /\ ~is_trivial(request)
    \* the solutions of the vehicles and the choice among them are computed once
    /\ \E solutions \in {[v \in VehicleIds |->
                            handle_transportation_request_single_vehicle(v, request)]} :
       \E chosen \in {ChooseVehicle(solutions, 0, INFINITY, 0 - 1)} :
           /\ m_stoplist_new' = [v \in VehicleIds |-> solutions[v].new_stoplist]
           /\ IF chosen.min_cost = INFINITY
              THEN /\ last' = Call("submit", "REQUESTREJECTION_EVENT", request.request_id)
                   /\ UNCHANGED <<m_last_request, m_last_request_optimal_vehicle>>
              ELSE /\ m_last_request' = request.request_id
                   /\ m_last_request_optimal_vehicle' = chosen.opt_vehicle
                   /\ last' = Call("submit", "REQUESTOFFERING_EVENT", request.request_id)
    /\ ff_since_submit' = FALSE
    /\ superseded' = SupersededAfterSubmit(request.request_id)
    /\ UNCHANGED <<stoplist, m_currentTime, crashed, committed, ff_last, dispatch, vehicle,
                   space, calls>>

\* ----------------------------- FleetState::execute_transportation_request
\* a commit that installs the proposal of every vehicle
select_every_new_stoplist(v) ==
    /\ stoplist' = m_stoplist_new
    /\ m_stoplist_new' = [w \in VehicleIds |-> <<>>]

select_new_stoplist(v) ==
    /\ stoplist' = [stoplist EXCEPT ![v] = m_stoplist_new[v]]
    /\ m_stoplist_new' = [m_stoplist_new EXCEPT ![v] = <<>>]

\* an execute that does not compare the id with the pending offer
never_differs(request_id) == FALSE

\* the second guard of execute_transportation_request
differs_from_last_request(request_id) == m_last_request # request_id

fleet_execute_transportation_request(request_id) ==
    /\ ~crashed
    /\ IF m_last_request = 0 - 1
       THEN /\ last' = Call("execute", "REQUESTREJECTION_EVENT", m_last_request)
            /\ UNCHANGED <<stoplist, m_stoplist_new, m_last_request, committed>>
       ELSE IF differs_from_last_request(request_id)
       THEN /\ last' = Call("execute", "REQUESTREJECTION_EVENT", m_last_request)
            /\ UNCHANGED <<stoplist, m_stoplist_new, m_last_request, committed>>
       ELSE /\ select_new_stoplist(m_last_request_optimal_vehicle)
            /\ m_last_request' = 0 - 1
            /\ last' = Call("execute", "REQUESTOFFERING_EVENT", m_last_request')
            /\ committed' = committed \cup {request_id}
    /\ UNCHANGED <<m_currentTime, m_last_request_optimal_vehicle, crashed,
                   ff_since_submit, superseded, ff_last, dispatch, vehicle, space>>

execute_transportation_request(request_id) ==
    /\ fleet_execute_transportation_request(request_id)
    /\ UNCHANGED calls

Next ==
    \/ \E new_time \in m_currentTime[0]..MaxTime : fast_forward(new_time)
    \/ \E new_time \in m_currentTime[0]..MaxTime : fast_forward_crash(new_time)
    \/ \E request \in RequestPool : submit_trivial(request)
    \/ \E request \in RequestPool : submit_transportation_request(request)
    \/ \E request_id \in RequestIds : execute_transportation_request(request_id)

Spec == Init /\ [][Next]_vars

\* ======================================================================
\* The fleet with a log of its commits and of the StopEvents it returned
\* ======================================================================

\* an entry of the log for a commit of request_id on the vehicle chosen for it
Commit(request_id, vehicle_id) ==
    [action |-> "COMMIT", requestId |-> request_id, vehicleId |-> vehicle_id]

\* fast_forward, the returned events being appended to the log
logged_fast_forward(new_time) ==
    /\ fleet_fast_forward(new_time)
    /\ calls' = calls \o ff_last'.returned

\* execute_transportation_request, a commit being appended to the log
logged_execute_transportation_request(request_id) ==
    /\ fleet_execute_transportation_request(request_id)
    /\ calls' = IF request_id \in committed' \ committed
                THEN Append(calls, Commit(request_id, m_last_request_optimal_vehicle))
                ELSE calls

NextLogged ==
    \/ \E new_time \in m_currentTime[0]..MaxTime : logged_fast_forward(new_time)
    \/ \E new_time \in m_currentTime[0]..MaxTime : fast_forward_crash(new_time)
    \/ \E request \in RequestPool : submit_trivial(request)
    \/ \E request \in RequestPool : submit_transportation_request(request)
    \/ \E request_id \in RequestIds : logged_execute_transportation_request(request_id)

SpecLogged == Init /\ [][NextLogged]_vars

\* ======================================================================
\* One call of the dispatcher on a stoplist that satisfies the invariants
\* ======================================================================

MaxStops == 2

Locations == { <<0, 0>>, <<1, 0>>, <<0, 1>> }

\* a request already planned (pickup and dropoff ahead) and one already on board
PlannedActions == { <<10, "PICKUP">>, <<10, "DROPOFF">>, <<11, "DROPOFF">> }

\* the stops a stoplist is made of, without the fields the stoplist determines
PlannedStops ==
    { [location |-> l, request_id |-> a[1], action |-> a[2],
       time_window_min |-> w[1], time_window_max |-> w[2]] :
         l \in Locations, a \in PlannedActions,
         w \in { <<0, INFINITY>>, <<3, INFINITY>>, <<0, 6>> } }

Plans == UNION { [1..n -> PlannedStops] : n \in 0..MaxStops }

\* the passengers on board at the head: dropoffs without a pickup ahead of them
OnBoard(plan) ==
    Cardinality({ k \in 1..Len(plan) :
                    /\ plan[k].action = "DROPOFF"
                    /\ \A h \in 1..(k - 1) : plan[h].request_id # plan[k].request_id })

\* the stoplist of a plan: every stop is reached by driving first, and the
\* occupancy follows the actions
RECURSIVE Planned(_, _, _)
Planned(plan, k, sl) ==
    IF k > Len(plan) THEN sl
    ELSE LET stop_before == sl[Len(sl)]
             p == plan[k]
         IN  Planned(plan, k + 1,
                 Append(sl, Stop(p.location, p.request_id, p.action,
                                 estimated_departure_time(stop_before)
                                   + t(stop_before.location, p.location),
                                 stop_before.occupancy_after_servicing
                                   + (IF p.action = "PICKUP" THEN 1 ELSE 0 - 1),
                                 p.time_window_min, p.time_window_max)))

StoplistOf(plan) ==
    Planned(plan, 1, <<Stop(startLocation, 0 - 1, "INTERNAL", 0, OnBoard(plan), 0, INFINITY)>>)

\* the stoplist invariants
EATNonDecreasing(sl) ==
    \A k \in 1..(Len(sl) - 1) : sl[k].estimated_arrival_time <= sl[k + 1].estimated_arrival_time

OccupancyConsistent(sl, capacity) ==
    /\ \A k \in 1..Len(sl) : /\ sl[k].occupancy_after_servicing >= 0
                             /\ sl[k].occupancy_after_servicing <= capacity
    /\ \A k \in 2..Len(sl) :
          sl[k].occupancy_after_servicing =
              sl[k - 1].occupancy_after_servicing
                + (IF sl[k].action = "PICKUP" THEN 1
                   ELSE IF sl[k].action = "DROPOFF" THEN 0 - 1 ELSE 0)

PickupsMatched(sl) ==
    /\ \A k \in 2..Len(sl) :
          sl[k].action = "PICKUP"
             => \E h \in (k + 1)..Len(sl) :
                   sl[h].action = "DROPOFF" /\ sl[h].request_id = sl[k].request_id
    /\ \A k, h \in 2..Len(sl) :
          (sl[k].request_id = sl[h].request_id /\ sl[k].action = sl[h].action) => k = h

WithinTimeWindows(sl) ==
    \A k \in 2..Len(sl) : sl[k].estimated_arrival_time <= sl[k].time_window_max

DriveFirstConsistent(sl) ==
    \A k \in 1..(Len(sl) - 1) :
        sl[k + 1].estimated_arrival_time =
            estimated_departure_time(sl[k]) + t(sl[k].location, sl[k + 1].location)

StoplistInvariants(sl, capacity) ==
    /\ Len(sl) >= 1
    /\ EATNonDecreasing(sl)
    /\ OccupancyConsistent(sl, capacity)
    /\ PickupsMatched(sl)
    /\ WithinTimeWindows(sl)

\* trivial requests are rejected before they reach a stoplist
NoTrivialRequest(sl) ==
    \A k, h \in 2..Len(sl) :
        (k < h /\ sl[k].request_id = sl[h].request_id) => sl[k].location # sl[h].location

StoplistInputs ==
    { sl \in { StoplistOf(plan) : plan \in Plans } :
         StoplistInvariants(sl, seat_capacity) /\ NoTrivialRequest(sl) }

RequestInputs ==
    { TransportationRequest(20, origin, destination, pw[1], pw[2], dw[1], dw[2]) :
         origin \in Locations, destination \in Locations,
         pw \in { <<0, INFINITY>>, <<2, INFINITY>>, <<0, 2>> },
         dw \in { <<0, INFINITY>>, <<0, 6>> } }

DispatchCall(request, sl, capacity) ==
    [called |-> FALSE, request |-> request, stoplist |-> sl, seat_capacity |-> capacity]

InitDispatch ==
    /\ InitSpace
    /\ FleetInit
    /\ \E request \in RequestInputs, sl \in StoplistInputs :
          /\ request.origin # request.destination
          /\ dispatch = DispatchCall(request, sl, seat_capacity)
    /\ vehicle = NoVehicle

\* the dispatcher is called on the arguments and returns its InsertionResult
dispatch_request ==
    /\ ~dispatch.called
    /\ dispatch' = [called |-> TRUE, request |-> dispatch.request,
                    stoplist |-> dispatch.stoplist,
                    seat_capacity |-> dispatch.seat_capacity,
                    result |-> brute_force_total_traveltime_minimizing_dispatcher(
                                   dispatch.request, dispatch.stoplist,
                                   dispatch.seat_capacity)]
    /\ UNCHANGED <<stoplist, m_stoplist_new, m_currentTime, m_last_request,
                   m_last_request_optimal_vehicle, crashed, last, ff_last,
                   ff_since_submit, superseded, committed, vehicle,
                   space, calls>>

NextDispatch == dispatch_request

SpecDispatch == InitDispatch /\ [][NextDispatch]_vars

\* a vehicle constructed with the stoplist handles the request with the C++
\* dispatcher; if a solution is found the fleet asks it for the in-vehicle
\* time window of the offer
dispatch_request_cpp ==
    /\ ~dispatch.called
    /\ LET result == BruteForceTotalTravelTimeMinimizingDispatcher(
                         dispatch.request, dispatch.stoplist, dispatch.seat_capacity)
       IN  dispatch' =
             [called |-> TRUE, request |-> dispatch.request,
              stoplist |-> dispatch.stoplist,
              seat_capacity |-> dispatch.seat_capacity,
              result |-> result,
              estimated_invehicle_time |->
                  IF result.thrown THEN TimeWindow(INFINITY, INFINITY)
                  ELSE estimate_travel_time(result.new_stoplist, dispatch.request, 1,
                                            TimeWindow(INFINITY, INFINITY))]
    /\ UNCHANGED <<stoplist, m_stoplist_new, m_currentTime, m_last_request,
                   m_last_request_optimal_vehicle, crashed, last, ff_last,
                   ff_since_submit, superseded, committed, vehicle,
                   space, calls>>

NextDispatchCpp == dispatch_request_cpp

SpecDispatchCpp == InitDispatch /\ [][NextDispatchCpp]_vars

\* vehicles with two seats and three stops ahead, where the dropoff can be
\* inserted between stops that are followed by further stops
DeepStops == 3

DeepCapacity == 2

DeepStoplistInputs ==
    { sl \in { StoplistOf(plan) : plan \in [1..DeepStops -> PlannedStops] } :
         StoplistInvariants(sl, DeepCapacity) /\ NoTrivialRequest(sl) }

InitDispatchDeep ==
    /\ InitSpace
    /\ FleetInit
    /\ \E request \in RequestInputs, sl \in DeepStoplistInputs :
          /\ request.origin # request.destination
          /\ dispatch = DispatchCall(request, sl, DeepCapacity)
    /\ vehicle = NoVehicle

SpecDispatchCppDeep == InitDispatchDeep /\ [][NextDispatchCpp]_vars

\* the Cython dispatchers, each called twice in a row on the same arguments
Dispatchers == {"brute_force", "simple_ellipse"}

MaxCalls == 2

InitRepeat ==
    /\ InitSpace
    /\ FleetInit
    /\ \E name \in Dispatchers, request \in RequestInputs, sl \in StoplistInputs :
          /\ request.origin # request.destination
          /\ dispatch = [dispatcher |-> name, request |-> request, stoplist |-> sl,
                         seat_capacity |-> seat_capacity, results |-> <<>>]
    /\ vehicle = NoVehicle

\* one call of the dispatcher on the arguments; the dispatchers read the
\* stoplist and insert into a copy of it
call_dispatcher ==
    /\ Len(dispatch.results) < MaxCalls
    /\ \E garbage \in Garbage :
          LET result ==
                  IF dispatch.dispatcher = "brute_force"
                  THEN brute_force_total_traveltime_minimizing_dispatcher(
                           dispatch.request, dispatch.stoplist, dispatch.seat_capacity)
                  ELSE simple_ellipse_dispatcher(
                           dispatch.request, dispatch.stoplist, dispatch.seat_capacity,
                           garbage)
          IN  dispatch' = [dispatch EXCEPT !.results = Append(@, result)]
    /\ UNCHANGED <<stoplist, m_stoplist_new, m_currentTime, m_last_request,
                   m_last_request_optimal_vehicle, crashed, last, ff_last,
                   ff_since_submit, superseded, committed, vehicle,
                   space, calls>>

NextRepeat == call_dispatcher

SpecRepeat == InitRepeat /\ [][NextRepeat]_vars

\* ======================================================================
\* One dispatcher call in the Euclidean plane
\* ======================================================================

\* points of the plane at whole distances from each other
PlaneLocations == { R2loc(0, 0), R2loc(3, 0), R2loc(0, 4), R2loc(3, 4) }

PlaneRequestInputs ==
    { TransportationRequest(20, origin, destination, pw[1], pw[2], dw[1], dw[2]) :
         origin \in PlaneLocations, destination \in PlaneLocations,
         pw \in { <<0, INFINITY>>, <<2, INFINITY>>, <<0, 2>> },
         dw \in { <<0, INFINITY>>, <<0, 6>> } }

\* a vehicle with four seats that idles at time 0: its stoplist is the CPE
InitPlane ==
    /\ space = Euclidean2D(1)
    /\ calls = NoCalls
    /\ FleetInit
    /\ \E request \in PlaneRequestInputs, location \in PlaneLocations :
          /\ request.origin # request.destination
          /\ dispatch = DispatchCall(request,
                                     <<Stop(location, 0 - 1, "INTERNAL", 0, 0, 0, INFINITY)>>,
                                     4)
    /\ vehicle = NoVehicle

\* the request is handled by the Cython dispatcher or by the C++ dispatcher
NextPlane ==
    \/ dispatch_request
    \/ dispatch_request_cpp

SpecPlane == InitPlane /\ [][NextPlane]_vars

\* ======================================================================
\* One vehicle constructed with an initial stoplist and fast-forwarded
\* ======================================================================

StopEventSpec(action, request_id, vehicle_id, timestamp) ==
    [action |-> action, request_id |-> request_id, vehicle_id |-> vehicle_id,
     timestamp |-> timestamp]

\* a vehicle that leaves the occupancy of the CPE as it was
keep_occupancy_at_CPE(cpe, last_stop) == cpe

\* stoplist[0].occupancy_after_servicing = last_stop.occupancy_after_servicing
set_occupancy_at_CPE(cpe, last_stop) ==
    [cpe EXCEPT !.occupancy_after_servicing = last_stop.occupancy_after_servicing]

\* the Cython VehicleState::fast_forward_time: every stop after the CPE whose
\* service time has come is dropped, the CPE stays and is moved
cython_fast_forward_time(sl, vehicle_id, new_time) ==
    LET is_due(stop) ==
            Max(stop.estimated_arrival_time, stop.time_window_min) <= new_time
        serviced == SelectSeq(Tail(sl), is_due)
        future == SelectSeq(Tail(sl), LAMBDA stop : ~is_due(stop))
        event_cache == [k \in 1..Len(serviced) |->
                           StopEventSpec(serviced[k].action, serviced[k].request_id, vehicle_id,
                               Max(serviced[k].estimated_arrival_time,
                                   serviced[k].time_window_min))]
        any_stop_serviced == Len(serviced) > 0
        last_stop == IF any_stop_serviced THEN serviced[Len(serviced)] ELSE sl[1]
        cpe == set_occupancy_at_CPE(sl[1], last_stop)
        moved == IF cpe.estimated_arrival_time <= new_time
                 THEN IF Len(future) + 1 > 1
                      THEN LET jump == interp_time(last_stop.location, future[1].location,
                                           future[1].estimated_arrival_time - new_time)
                           IN  [cpe EXCEPT !.location = jump.nextLocation,
                                           !.estimated_arrival_time = new_time + jump.distance]
                      ELSE [cpe EXCEPT !.location = last_stop.location,
                                       !.estimated_arrival_time = new_time]
                 ELSE cpe
    IN  [stoplist |-> <<moved>> \o future, events |-> event_cache]

Implementations == {"cpp", "cython"}

Vehicle(impl, sl) ==
    [constructed |-> TRUE, impl |-> impl, stoplist |-> sl, previous |-> sl,
     m_currentTime |-> 0, events |-> <<>>, forwarded |-> FALSE]

InitVehicle ==
    /\ InitSpace
    /\ FleetInit
    /\ dispatch = NoDispatch
    /\ \E impl \in Implementations, sl \in StoplistInputs : vehicle = Vehicle(impl, sl)

Forwarded(new_time, ff) ==
    /\ vehicle' = [vehicle EXCEPT !.stoplist = ff.stoplist, !.previous = vehicle.stoplist,
                                  !.m_currentTime = new_time, !.events = ff.events,
                                  !.forwarded = TRUE]
    /\ UNCHANGED <<stoplist, m_stoplist_new, m_currentTime, m_last_request,
                   m_last_request_optimal_vehicle, crashed, last, ff_last,
                   ff_since_submit, superseded, committed, dispatch,
                   space, calls>>

\* VehicleState::fast_forward_time of the C++ vehicle
vehicle_fast_forward_time(new_time) ==
    /\ vehicle.impl = "cpp"
    /\ Forwarded(new_time, fast_forward_time(vehicle.stoplist, 0, new_time))

\* VehicleState::fast_forward_time of the Cython vehicle
cython_vehicle_fast_forward_time(new_time) ==
    /\ vehicle.impl = "cython"
    /\ Forwarded(new_time, cython_fast_forward_time(vehicle.stoplist, 0, new_time))

NextVehicle ==
    \/ \E new_time \in vehicle.m_currentTime..MaxTime : vehicle_fast_forward_time(new_time)
    \/ \E new_time \in vehicle.m_currentTime..MaxTime : cython_vehicle_fast_forward_time(new_time)

SpecVehicle == InitVehicle /\ [][NextVehicle]_vars

\* a caller that passes any time, also one before the vehicle's current time:
\* fast_forward_time does not compare new_time with m_currentTime
NextVehicleAnyTime ==
    \/ \E new_time \in 0..MaxTime : vehicle_fast_forward_time(new_time)
    \/ \E new_time \in 0..MaxTime : cython_vehicle_fast_forward_time(new_time)

SpecVehicleAnyTime == InitVehicle /\ [][NextVehicleAnyTime]_vars

\* a caller that goes on until the time windows of the planned stops have opened
MaxLateTime == 4

NextVehicleLate ==
    \/ \E new_time \in vehicle.m_currentTime..MaxLateTime : vehicle_fast_forward_time(new_time)
    \/ \E new_time \in vehicle.m_currentTime..MaxLateTime :
           cython_vehicle_fast_forward_time(new_time)

SpecVehicleLate == InitVehicle /\ [][NextVehicleLate]_vars

\* ======================================================================
\* One vehicle whose fast_forward_time calls are recorded from construction
\* ======================================================================

MaxForwardCalls == 2

\* initial: the stoplist the vehicle was constructed with; emitted: the events
\* of all calls so far, call after call; forward_calls: the number of calls
TracedVehicle(impl, sl) ==
    [constructed |-> TRUE, impl |-> impl, stoplist |-> sl, previous |-> sl,
     m_currentTime |-> 0, events |-> <<>>, forwarded |-> FALSE,
     initial |-> sl, emitted |-> <<>>, forward_calls |-> 0]

InitVehicleTraced ==
    /\ InitSpace
    /\ FleetInit
    /\ dispatch = NoDispatch
    /\ \E impl \in Implementations, sl \in StoplistInputs : vehicle = TracedVehicle(impl, sl)

ForwardedTraced(new_time, ff) ==
    /\ vehicle.forward_calls < MaxForwardCalls
    /\ vehicle' = [vehicle EXCEPT !.stoplist = ff.stoplist, !.previous = vehicle.stoplist,
                                  !.m_currentTime = new_time, !.events = ff.events,
                                  !.forwarded = TRUE, !.emitted = @ \o ff.events,
                                  !.forward_calls = @ + 1]
    /\ UNCHANGED <<stoplist, m_stoplist_new, m_currentTime, m_last_request,
                   m_last_request_optimal_vehicle, crashed, last, ff_last,
                   ff_since_submit, superseded, committed, dispatch,
                   space, calls>>

\* VehicleState::fast_forward_time of the C++ vehicle
traced_fast_forward_time(new_time) ==
    /\ vehicle.impl = "cpp"
    /\ ForwardedTraced(new_time, fast_forward_time(vehicle.stoplist, 0, new_time))

\* VehicleState::fast_forward_time of the Cython vehicle
traced_cython_fast_forward_time(new_time) ==
    /\ vehicle.impl = "cython"
    /\ ForwardedTraced(new_time, cython_fast_forward_time(vehicle.stoplist, 0, new_time))

NextVehicleTraced ==
    \/ \E new_time \in vehicle.m_currentTime..MaxLateTime : traced_fast_forward_time(new_time)
    \/ \E new_time \in vehicle.m_currentTime..MaxLateTime :
           traced_cython_fast_forward_time(new_time)

SpecVehicleTraced == InitVehicleTraced /\ [][NextVehicleTraced]_vars

\* ======================================================================
\* A square grid whose interp_dist is called directly
\* ======================================================================

\* the nodes a journey starts and ends at
MaxNode == 3

GridNodes == (0..MaxNode) \X (0..MaxNode)

\* lengths are counted in halves of the unit of length: SquareGrid(1, 1), an
\* edge of the grid being two halves long, and a vehicle somewhere on its way
\* from origin to destination
MaxOvershoot == 2

\* dist_to_dest runs up to the distance of the nodes and, for a vehicle that
\* has not yet left the origin, beyond it
InitInterp ==
    /\ space = SquareGrid(2, 1)
    /\ \E origin \in GridNodes, destination \in GridNodes :
          \E dist_to_dest \in 0..(2 * (Abs(origin[1] - destination[1])
                                         + Abs(origin[2] - destination[2]))
                                     + MaxOvershoot) :
             calls = <<[op |-> "interp_dist", origin |-> origin,
                        destination |-> destination, dist_to_dest |-> dist_to_dest,
                        returned |-> FALSE]>>
    /\ FleetInit
    /\ dispatch = NoDispatch
    /\ vehicle = NoVehicle

call_interp_dist ==
    /\ ~calls[1].returned
    /\ calls' = <<[op |-> "interp_dist", origin |-> calls[1].origin,
                   destination |-> calls[1].destination,
                   dist_to_dest |-> calls[1].dist_to_dest, returned |-> TRUE,
                   result |-> SquareGrid_interp_dist(space.m_gridSize, calls[1].origin,
                                                     calls[1].destination,
                                                     calls[1].dist_to_dest)]>>
    /\ UNCHANGED <<stoplist, m_stoplist_new, m_currentTime, m_last_request,
                   m_last_request_optimal_vehicle, crashed, last, ff_last,
                   ff_since_submit, superseded, committed, dispatch, vehicle, space>>

NextInterp == call_interp_dist

SpecInterp == InitInterp /\ [][NextInterp]_vars

\* ======================================================================
\* The time-window check of an insertion, called directly
\* ======================================================================

MaxArrival == 8

\* one call of the check of an insertion after index idx with the arrival time
\* est_arrival at the stop behind it
InitTimeWindowCheck ==
    /\ space = SquareGrid(m_gridSize, m_velocity)
    /\ \E impl \in Implementations, sl \in StoplistInputs :
          \E idx \in 0..(Len(sl) - 1), est_arrival \in 0..MaxArrival :
             calls = <<[op |-> "timewindow_check", impl |-> impl, stoplist |-> sl,
                        idx |-> idx, est_arrival |-> est_arrival, returned |-> FALSE]>>
    /\ FleetInit
    /\ dispatch = NoDispatch
    /\ vehicle = NoVehicle

TimeWindowCheckReturns(result) ==
    /\ ~calls[1].returned
    /\ calls' = <<[calls[1] EXCEPT !.returned = TRUE] @@ [result |-> result]>>
    /\ UNCHANGED <<stoplist, m_stoplist_new, m_currentTime, m_last_request,
                   m_last_request_optimal_vehicle, crashed, last, ff_last,
                   ff_since_submit, superseded, committed, dispatch, vehicle, space>>

\* the Cython is_timewindow_violated_dueto_insertion
call_is_timewindow_violated_dueto_insertion ==
    /\ calls[1].impl = "cython"
    /\ TimeWindowCheckReturns(
           IF is_timewindow_violated_dueto_insertion(calls[1].stoplist, calls[1].idx,
                                                     calls[1].est_arrival)
           THEN "violated" ELSE "ok")

\* the C++ does_insertion_violates_any_timewindow
call_does_insertion_violates_any_timewindow ==
    /\ calls[1].impl = "cpp"
    /\ TimeWindowCheckReturns(
           does_insertion_violates_any_timewindow(calls[1].stoplist, calls[1].idx,
                                                  calls[1].est_arrival))

NextTimeWindowCheck ==
    \/ call_is_timewindow_violated_dueto_insertion
    \/ call_does_insertion_violates_any_timewindow

SpecTimeWindowCheck == InitTimeWindowCheck /\ [][NextTimeWindowCheck]_vars

\* ======================================================================
\* A GraphSpace shared by two workers
\* ======================================================================

\* the graph: a path of vertices 0 - 1 - ... with edges of weight 1, the
\* vertex labels being the vertex indices
NumVertices == 3

Vertices == 0..(NumVertices - 1)

Workers == 1..2

\* boost::edge(a, b, _g).second
is_edge(a, b) == Abs(a - b) = 1

\* get(edge2weight, e) for an edge of the graph constructed without weights:
\* the weight 1, lengths being counted in halves of the unit of length
edge_weight(a, b) == 2

\* the length of the shortest path from u to v over at most hops edges
RECURSIVE ShortestWithin(_, _, _)
ShortestWithin(u, v, hops) ==
    IF u = v THEN 0
    ELSE IF hops = 0 THEN INFINITY
    ELSE LET via == { ShortestWithin(u, n, hops - 1) + edge_weight(n, v) :
                         n \in { n \in Vertices : is_edge(n, v) } }
         IN  IF via = {} THEN INFINITY ELSE CHOOSE m \in via : \A x \in via : m <= x

\* what dijkstra_shortest_paths writes to the predecessor map and to the
\* distance map for the source u
dijkstra_shortest_paths(u) ==
    LET distance == [v \in Vertices |-> ShortestWithin(u, v, NumVertices - 1)]
    IN  [first |-> [v \in Vertices |->
                       IF v = u THEN u
                       ELSE CHOOSE n \in Vertices :
                                is_edge(n, v) /\ distance[n] + edge_weight(n, v) = distance[v]],
         second |-> distance]

\* an entry of the LRU cache pred_cache
NotCached == [contains |-> FALSE]

Cached(res) == [contains |-> TRUE, first |-> res.first, second |-> res.second]

GraphSpace(predecessors, distances, cache) ==
    [kind |-> "GraphSpace", _predecessors |-> predecessors, _distances |-> distances,
     pred_cache |-> cache]

\* the space after construction and any number of calls made one after the
\* other: some sources are cached, and the members hold the vectors of the
\* source asked for most recently
GraphSpaces ==
    { GraphSpace([v \in Vertices |-> 0], [v \in Vertices |-> 0],
                 [v \in Vertices |-> NotCached]) }
    \cup UNION { { GraphSpace(dijkstra_shortest_paths(recent).first,
                               dijkstra_shortest_paths(recent).second,
                               [v \in Vertices |-> IF v \in known
                                                   THEN Cached(dijkstra_shortest_paths(v))
                                                   ELSE NotCached]) :
                       known \in { k \in SUBSET Vertices : recent \in k } } :
                   recent \in Vertices }

\* the remaining distances a caller of interp_dist asks for
MaxDistToDest == 2

GraphCalls ==
    { [op |-> "d", u |-> u, v |-> v, dist_to_dest |-> 0, pc |-> "called"] :
         u \in Vertices, v \in Vertices }
    \cup { [op |-> "interp_dist", u |-> u, v |-> v, dist_to_dest |-> dist_to_dest,
             pc |-> "called"] :
               u \in Vertices, v \in Vertices, dist_to_dest \in 1..MaxDistToDest }

\* two workers call the shared space with different source vertices
InitGraph ==
    /\ space \in GraphSpaces
    /\ \E first \in GraphCalls, second \in GraphCalls :
          /\ first.u # second.u
          /\ calls = <<first, second>>
    /\ FleetInit
    /\ dispatch = NoDispatch
    /\ vehicle = NoVehicle

GraphFrame ==
    UNCHANGED <<stoplist, m_stoplist_new, m_currentTime, m_last_request,
                m_last_request_optimal_vehicle, crashed, last, ff_last,
                ff_since_submit, superseded, committed, dispatch, vehicle>>

\* the worker has passed `if (u == v)` of interp_dist, or has entered d
enters_cached_dijkstra(w) ==
    /\ calls[w].pc = "called"
    /\ ~(calls[w].op = "interp_dist" /\ calls[w].u = calls[w].v)

\* interp_dist for u == v returns without a look at the shared members
return_same_vertex(w) ==
    /\ calls[w].pc = "called"
    /\ calls[w].op = "interp_dist" /\ calls[w].u = calls[w].v
    /\ calls' = [calls EXCEPT ![w] = [op |-> @.op, u |-> @.u, v |-> @.v,
                                      dist_to_dest |-> @.dist_to_dest, pc |-> "returned",
                                      result |-> [vertex |-> @.v, residual |-> 0]]]
    /\ UNCHANGED space
    /\ GraphFrame

\* cached_dijkstra, cache hit: auto res = pred_cache.lookup(u_idx)
lookup(w) ==
    /\ enters_cached_dijkstra(w)
    /\ space.pred_cache[calls[w].u].contains
    /\ calls' = [calls EXCEPT ![w] = [op |-> @.op, u |-> @.u, v |-> @.v,
                                      dist_to_dest |-> @.dist_to_dest, pc |-> "looked_up",
                                      res |-> space.pred_cache[@.u]]]
    /\ UNCHANGED space
    /\ GraphFrame

\* this->_predecessors = res.first
assign_predecessors(w) ==
    /\ calls[w].pc = "looked_up"
    /\ space' = [space EXCEPT !._predecessors = calls[w].res.first]
    /\ calls' = [calls EXCEPT ![w].pc = "predecessors_assigned"]
    /\ GraphFrame

\* this->_distances = res.second
assign_distances(w) ==
    /\ calls[w].pc = "predecessors_assigned"
    /\ space' = [space EXCEPT !._distances = calls[w].res.second]
    /\ calls' = [calls EXCEPT ![w] = [op |-> @.op, u |-> @.u, v |-> @.v,
                                      dist_to_dest |-> @.dist_to_dest, pc |-> "done"]]
    /\ GraphFrame

\* cached_dijkstra, cache miss: dijkstra_shortest_paths writes to the members
compute(w) ==
    /\ enters_cached_dijkstra(w)
    /\ ~space.pred_cache[calls[w].u].contains
    /\ space' = [space EXCEPT !._predecessors = dijkstra_shortest_paths(calls[w].u).first,
                              !._distances = dijkstra_shortest_paths(calls[w].u).second]
    /\ calls' = [calls EXCEPT ![w].pc = "computed"]
    /\ GraphFrame

\* pred_cache.insert(u_idx, make_pair(this->_predecessors, this->_distances))
insert(w) ==
    /\ calls[w].pc = "computed"
    /\ space' = [space EXCEPT !.pred_cache[calls[w].u] =
                                  Cached([first |-> space._predecessors,
                                          second |-> space._distances])]
    /\ calls' = [calls EXCEPT ![w].pc = "done"]
    /\ GraphFrame

\* d: return this->_distances[this->vertex_label2index[target]]
return_d(w) ==
    /\ calls[w].pc = "done"
    /\ calls[w].op = "d"
    /\ calls' = [calls EXCEPT ![w] = [op |-> @.op, u |-> @.u, v |-> @.v,
                                      dist_to_dest |-> @.dist_to_dest, pc |-> "returned",
                                      result |-> [distance |-> space._distances[@.v]]]]
    /\ UNCHANGED space
    /\ GraphFrame

\* the loop of interp_dist over the predecessors from current_node on and the
\* return after it; the weight of an edge that does not exist is undefined
\* a test that also takes the vehicle that stands at a vertex for one on an edge
is_at_or_beyond(dist_from_dest, dist_to_dest) == dist_from_dest >= dist_to_dest

\* if (dist_from_dest > dist_to_dest): the vehicle is on the edge walked last
is_beyond(dist_from_dest, dist_to_dest) == dist_from_dest > dist_to_dest

RECURSIVE WalkBack(_, _, _, _, _)
WalkBack(predecessors, u_idx, current_node, dist_from_dest, dist_to_dest) ==
    LET predecessor == predecessors[current_node]
        current_edge_weight == edge_weight(current_node, predecessor)
        reached == dist_from_dest + current_edge_weight
    IN  IF ~is_edge(current_node, predecessor) THEN [defined |-> FALSE]
        ELSE IF reached >= dist_to_dest \/ predecessor = u_idx
        THEN IF is_beyond(reached, dist_to_dest)
             THEN [defined |-> TRUE, vertex |-> current_node,
                   residual |-> dist_to_dest - reached + current_edge_weight]
             ELSE [defined |-> TRUE, vertex |-> predecessor, residual |-> 0]
        ELSE WalkBack(predecessors, u_idx, predecessor, reached, dist_to_dest)

\* what a walk over an edge that does not exist may return
UndefinedWalks == { [vertex |-> v, residual |-> r] : v \in Vertices, r \in 0..1 }

\* interp_dist after cached_dijkstra
return_interp_dist(w) ==
    /\ calls[w].pc = "done"
    /\ calls[w].op = "interp_dist"
    /\ LET walk == WalkBack(space._predecessors, calls[w].u, calls[w].v, 0,
                            calls[w].dist_to_dest)
       IN  \E returned \in IF walk.defined
                            THEN { [vertex |-> walk.vertex, residual |-> walk.residual] }
                            ELSE UndefinedWalks :
              calls' = [calls EXCEPT ![w] = [op |-> @.op, u |-> @.u, v |-> @.v,
                                              dist_to_dest |-> @.dist_to_dest,
                                              pc |-> "returned", result |-> returned]]
    /\ UNCHANGED space
    /\ GraphFrame

NextGraph ==
    \E w \in Workers :
        \/ return_same_vertex(w)
        \/ lookup(w)
        \/ assign_predecessors(w)
        \/ assign_distances(w)
        \/ compute(w)
        \/ insert(w)
        \/ return_d(w)
        \/ return_interp_dist(w)

SpecGraph == InitGraph /\ [][NextGraph]_vars

\* ======================================================================
\* A GraphSpace called by one caller
\* ======================================================================

\* d, and interp_dist with a remaining distance up to the distance of the
\* vertices and beyond it
LoneGraphCalls ==
    { [op |-> "d", u |-> u, v |-> v, dist_to_dest |-> 0, pc |-> "called"] :
         u \in Vertices, v \in Vertices }
    \cup { [op |-> "interp_dist", u |-> uv[1], v |-> uv[2], dist_to_dest |-> dist_to_dest,
             pc |-> "called"] :
               uv \in Vertices \X Vertices,
               dist_to_dest \in 0..((NumVertices - 1) * 2 + MaxOvershoot) }

InitLoneGraph ==
    /\ space \in GraphSpaces
    /\ \E call \in LoneGraphCalls : calls = <<call>>
    /\ FleetInit
    /\ dispatch = NoDispatch
    /\ vehicle = NoVehicle

NextLoneGraph ==
    \/ return_same_vertex(1)
    \/ lookup(1)
    \/ assign_predecessors(1)
    \/ assign_distances(1)
    \/ compute(1)
    \/ insert(1)
    \/ return_d(1)
    \/ return_interp_dist(1)

\* the caller's thread goes on running until the call returns
SpecLoneGraph == InitLoneGraph /\ [][NextLoneGraph]_vars /\ WF_vars(NextLoneGraph)

\* ======================================================================
\* Properties of the fleet state
\* ======================================================================

Rejected == last.type = "REQUESTREJECTION_EVENT"

\* C1: after a fast_forward, every execute_transportation_request issued before the
\* next submit_transportation_request returns a rejection event and leaves every
\* vehicle's stoplist as it was, whatever request id it is called with.
C1_ExecuteAfterFastForwardRejects ==
    [][(ff_since_submit /\ last'.op = "execute")
          => (last'.type = "REQUESTREJECTION_EVENT" /\ stoplist' = stoplist)]_vars

\* an execute was rejected after a fast_forward although proposals of an earlier
\* submit are still stored in the vehicles
C1_Witness ==
    /\ ff_since_submit
    /\ last.op = "execute"
    /\ Rejected
    /\ \E v \in VehicleIds : Len(m_stoplist_new[v]) > 1

\* C2 (as the specification states it): the execute_transportation_request that
\* directly follows an offering submit, called with the offered id, returns an event
\* that is neither an offer nor a rejection and that carries the offered request id.
C2_ExecuteReturnsAcceptance ==
    [][\A id \in RequestIds :
          (/\ last.op = "submit"
           /\ last.type = "REQUESTOFFERING_EVENT"
           /\ last.requestId = id
           /\ execute_transportation_request(id))
          => (/\ last'.type \notin {"REQUESTOFFERING_EVENT", "REQUESTREJECTION_EVENT"}
              /\ last'.requestId = id)]_vars

\* C3 (as the specification states it): whenever execute_transportation_request
\* commits, the stoplist of the chosen vehicle afterwards is the stoplist the
\* dispatcher produces for the committed request from that vehicle's stoplist
\* before the call, so it holds the head, the pickup and the dropoff.
C3_CommitInstallsDispatchedStoplist ==
    [][\A id \in RequestIds :
          (execute_transportation_request(id) /\ last'.type # "REQUESTREJECTION_EVENT")
          => LET v == m_last_request_optimal_vehicle
             IN  /\ stoplist'[v] =
                       m_dispatcher(RequestOf(id), stoplist[v], seat_capacity).new_stoplist
                 /\ Len(stoplist'[v]) >= 3
                 /\ \E a, b \in 2..Len(stoplist'[v]) :
                       /\ a < b
                       /\ stoplist'[v][a].request_id = id
                       /\ stoplist'[v][a].action = "PICKUP"
                       /\ stoplist'[v][b].request_id = id
                       /\ stoplist'[v][b].action = "DROPOFF"]_vars

\* C4 (as the specification states it): once a later submit for another request
\* has returned, whatever its outcome, executing the earlier offered request is
\* rejected and changes no stoplist.
C4_LaterSubmitReplacesOffer ==
    [][\A id \in RequestIds :
          (id \in superseded /\ execute_transportation_request(id))
          => (last'.type = "REQUESTREJECTION_EVENT" /\ stoplist' = stoplist)]_vars

\* C5: execute_transportation_request returns a rejection whenever no offer is
\* pending or the id differs from the pending one, and then it changes neither a
\* stoplist nor the record of the pending offer.
C5_MismatchedExecuteRejects ==
    [][\A id \in RequestIds :
          (execute_transportation_request(id) /\ (m_last_request = 0 - 1 \/ m_last_request # id))
          => (/\ last'.type = "REQUESTREJECTION_EVENT"
              /\ stoplist' = stoplist
              /\ m_last_request' = m_last_request
              /\ m_last_request_optimal_vehicle' = m_last_request_optimal_vehicle)]_vars

\* an execute was rejected while an offer for some request was pending
C5_Witness ==
    /\ last.op = "execute"
    /\ Rejected
    /\ m_last_request # 0 - 1

Count(events, e) == Cardinality({k \in 1..Len(events) : events[k] = e})

IsPermutation(a, b) ==
    /\ Len(a) = Len(b)
    /\ \A k \in 1..Len(a) : Count(a, a[k]) = Count(b, a[k])

\* C6 (as the specification states it): fast_forward returns every stop event of
\* every vehicle's fast_forward_time exactly once, so the returned sequence is a
\* permutation of the vehicles' events.
C6_ReturnsEveryEventOnce == IsPermutation(ff_last.returned, ff_last.emitted)

\* C7: the sequence fast_forward returns is non-decreasing in timestamp, and events
\* of equal timestamp appear in ascending order of vehicle id.
C7_SortedByTimeThenVehicle ==
    \A a, b \in 1..Len(ff_last.returned) :
        a < b => /\ ff_last.returned[a].timestamp <= ff_last.returned[b].timestamp
                 /\ (ff_last.returned[a].timestamp = ff_last.returned[b].timestamp
                        => ff_last.returned[a].vehicleId <= ff_last.returned[b].vehicleId)

\* events of two vehicles with one timestamp were returned ahead of a later event
C7_Witness ==
    \E a, b, c \in 1..Len(ff_last.returned) :
        /\ a < b /\ b < c
        /\ ff_last.returned[a].timestamp = ff_last.returned[b].timestamp
        /\ ff_last.returned[a].vehicleId # ff_last.returned[b].vehicleId
        /\ ff_last.returned[b].timestamp < ff_last.returned[c].timestamp

\* the events returned by two successive calls, the earlier call first
Concatenation == ff_last.returned \o ff_last'.returned

\* C8: for successive calls fast_forward(t1) and fast_forward(t2) with t1 < t2, in
\* the concatenation of the returned sequences every event with timestamp <= t1
\* precedes every event with timestamp in (t1, t2], and no returned event has a
\* timestamp greater than the time of its call.
C8_SuccessiveCallsInOrder ==
    [][(last'.op = "fast_forward" /\ last'.type # "CRASH")
          => /\ \A k \in 1..Len(ff_last'.returned) :
                    ff_last'.returned[k].timestamp <= ff_last'.t
             /\ \A k \in 1..Len(ff_last.returned) :
                    ff_last.returned[k].timestamp <= ff_last.t
             /\ ff_last.t < ff_last'.t
                  => \A a, b \in 1..Len(Concatenation) :
                        (/\ Concatenation[a].timestamp <= ff_last.t
                         /\ Concatenation[b].timestamp > ff_last.t
                         /\ Concatenation[b].timestamp <= ff_last'.t)
                        => a < b]_vars

\* two successive calls at increasing times have both returned events, the later
\* call one that was due at the earlier time and one that came due after it
C8_Witness ==
    /\ last.op = "fast_forward"
    /\ ff_last.previous_t < ff_last.t
    /\ ff_last.previous_size > 0
    /\ \E a, b \in 1..Len(ff_last.returned) :
          /\ ff_last.returned[a].timestamp <= ff_last.previous_t
          /\ ff_last.returned[b].timestamp > ff_last.previous_t

\* ======================================================================
\* Properties of the dispatcher
\* ======================================================================

\* the arrival times of the stops from position k on, each reached by driving
\* first from its predecessor
RECURSIVE DriveFirst(_, _)
DriveFirst(sl, k) ==
    IF k > Len(sl) THEN sl
    ELSE DriveFirst([sl EXCEPT ![k].estimated_arrival_time =
                        estimated_departure_time(sl[k - 1])
                          + t(sl[k - 1].location, sl[k].location)], k + 1)

\* the drive-first insertion of the pickup after index i and of the dropoff
\* after index j (both 0-based indices of the stoplist before the insertion)
DriveFirstInsertion(sl, request, i, j) ==
    LET pickup == Stop(request.origin, request.request_id, "PICKUP", 0,
                       At(sl, i).occupancy_after_servicing + 1,
                       request.pickup_timewindow_min, request.pickup_timewindow_max)
        dropoff == Stop(request.destination, request.request_id, "DROPOFF", 0,
                        At(sl, j).occupancy_after_servicing,
                        request.delivery_timewindow_min, request.delivery_timewindow_max)
        between == [k \in 1..Len(sl) |->
                       IF k - 1 > i /\ k - 1 <= j
                       THEN [sl[k] EXCEPT !.occupancy_after_servicing = @ + 1]
                       ELSE sl[k]]
        sequence == SubSeq(between, 1, i + 1) \o <<pickup>> \o SubSeq(between, i + 2, j + 1)
                      \o <<dropoff>> \o SubSeq(between, j + 2, Len(sl))
    IN  DriveFirst(sequence, 2)

RECURSIVE TravelTime(_, _)
TravelTime(sl, k) ==
    IF k >= Len(sl) THEN 0
    ELSE t(sl[k].location, sl[k + 1].location) + TravelTime(sl, k + 1)

AddedTravelTime(sl, request, i, j) ==
    TravelTime(DriveFirstInsertion(sl, request, i, j), 1) - TravelTime(sl, 1)

\* the index pairs whose insertion keeps the capacity and every time window
FeasiblePairs(sl, request, capacity) ==
    { pair \in (0..(Len(sl) - 1)) \X (0..(Len(sl) - 1)) :
        /\ pair[1] <= pair[2]
        /\ LET inserted == DriveFirstInsertion(sl, request, pair[1], pair[2])
           IN  /\ \A k \in 1..Len(inserted) : inserted[k].occupancy_after_servicing <= capacity
               /\ WithinTimeWindows(inserted) }

MinimalCost(sl, request, capacity) ==
    LET costs == { AddedTravelTime(sl, request, pair[1], pair[2]) :
                      pair \in FeasiblePairs(sl, request, capacity) }
    IN  CHOOSE c \in costs : \A other \in costs : c <= other

\* the cost the dispatcher reports is the minimal added travel time, and it is
\* infinity with an empty stoplist exactly when no pair is feasible
MinCostIsMinimal ==
    dispatch.called =>
        LET feasible == FeasiblePairs(dispatch.stoplist, dispatch.request, dispatch.seat_capacity)
        IN  /\ (feasible = {}) <=> (dispatch.result.min_cost = INFINITY)
            /\ (feasible = {}) <=> (dispatch.result.new_stoplist = <<>>)
            /\ feasible # {} =>
                  dispatch.result.min_cost =
                      MinimalCost(dispatch.stoplist, dispatch.request, dispatch.seat_capacity)

\* C9 (as the specification states it): on every stoplist that satisfies the
\* invariants the dispatcher returns the minimum added travel time over the
\* feasible index pairs together with the drive-first insertion at a pair
\* attaining it, and infinity with an empty stoplist exactly when no pair is
\* feasible.
C9_MinimalFeasibleInsertion ==
    dispatch.called =>
        LET feasible == FeasiblePairs(dispatch.stoplist, dispatch.request, dispatch.seat_capacity)
        IN  /\ (feasible = {}) <=> (dispatch.result.min_cost = INFINITY)
            /\ (feasible = {}) <=> (dispatch.result.new_stoplist = <<>>)
            /\ feasible # {} =>
                  /\ dispatch.result.min_cost =
                        MinimalCost(dispatch.stoplist, dispatch.request, dispatch.seat_capacity)
                  /\ \E pair \in feasible :
                        /\ AddedTravelTime(dispatch.stoplist, dispatch.request, pair[1], pair[2])
                              = dispatch.result.min_cost
                        /\ dispatch.result.new_stoplist =
                              DriveFirstInsertion(dispatch.stoplist, dispatch.request,
                                                  pair[1], pair[2])

\* C10 (as the specification states it): when the input stoplist is drive-first
\* consistent and within its time windows, every stop but the head of the
\* stoplist a feasible dispatch returns is reached within its time window.
C10_ReturnedStoplistWithinTimeWindows ==
    (/\ dispatch.called
     /\ DriveFirstConsistent(dispatch.stoplist)
     /\ WithinTimeWindows(dispatch.stoplist)
     /\ dispatch.result.min_cost < INFINITY)
        => WithinTimeWindows(dispatch.result.new_stoplist)

\* C15: insert_request_to_stoplist_drive_first preserves drive-first
\* consistency: if in the input every stop's EAT equals max(EAT,
\* time_window.min) of its predecessor plus the travel time between the two
\* locations, the same holds for every adjacent pair of the output, also
\* when a stop after the insertion absorbs only part of the delay.
C15_InsertionPreservesDriveFirst ==
    (/\ dispatch.called
     /\ dispatch.result.min_cost < INFINITY
     /\ DriveFirstConsistent(dispatch.stoplist))
        => DriveFirstConsistent(dispatch.result.new_stoplist)

\* ======================================================================
\* Stoplist invariants in the fleet
\* ======================================================================

C12_StoplistNeverEmpty ==
    \A v \in VehicleIds : Len(stoplist[v]) >= 1

\* C17: in every reachable state the head of every vehicle's stoplist is the
\* CPE, an INTERNAL stop that belongs to no passenger request:
\* fast_forward_time never removes it or replaces it by a serviced PICKUP or
\* DROPOFF stop, and it is never emitted as a StopEvent.
C17_HeadIsAlwaysTheCPE ==
    /\ \A v \in VehicleIds :
          Len(stoplist[v]) >= 1
             => /\ stoplist[v][1].action = "INTERNAL"
                /\ stoplist[v][1].request_id = 0 - 1
    /\ \A k \in 1..Len(ff_last.emitted) : ff_last.emitted[k].action # "INTERNAL"

\* the costs the vehicles' dispatchers return for a request in this state
Costs(request) ==
    [v \in VehicleIds |-> handle_transportation_request_single_vehicle(v, request).min_cost]

\* C18: for a request with origin different from destination, submit returns
\* an OFFER iff at least one vehicle's dispatcher result has finite min_cost;
\* the vehicle recorded in the pending offer then has the minimal min_cost
\* over all vehicles and the lowest index among the vehicles of that cost;
\* otherwise a REJECTION is returned and the pending offer stays as it was.
C18_OfferIffFeasibleAtCheapestVehicle ==
    [][\A request \in RequestPool :
          submit_transportation_request(request) =>
             LET costs == Costs(request)
                 opt == m_last_request_optimal_vehicle'
             IN  IF \E v \in VehicleIds : costs[v] < INFINITY
                 THEN /\ last' = Call("submit", "REQUESTOFFERING_EVENT", request.request_id)
                      /\ m_last_request' = request.request_id
                      /\ opt \in VehicleIds
                      /\ \A v \in VehicleIds : costs[opt] <= costs[v]
                      /\ \A v \in VehicleIds : costs[v] = costs[opt] => opt <= v
                 ELSE /\ last' = Call("submit", "REQUESTREJECTION_EVENT", request.request_id)
                      /\ UNCHANGED <<m_last_request, m_last_request_optimal_vehicle>>]_vars

\* an offer was made in which the second vehicle was strictly cheaper than
\* the first one, and the first one was feasible too
C18_Witness ==
    /\ last.op = "submit"
    /\ last.type = "REQUESTOFFERING_EVENT"
    /\ m_last_request_optimal_vehicle = 1
    /\ m_stoplist_new[0] # <<>>

\* an execute step of this id passes both guards and commits
Commits(request_id) ==
    /\ execute_transportation_request(request_id)
    /\ m_last_request # 0 - 1
    /\ m_last_request = request_id

\* C20: a committing execute_transportation_request changes the stoplist of
\* exactly one vehicle, the one chosen at submit time, and leaves all other
\* vehicles' stoplists unchanged; submit_transportation_request changes no
\* vehicle's current stoplist.
C20_CommitChangesOnlyTheChosenVehicle ==
    [][/\ \A request_id \in RequestIds :
             Commits(request_id) =>
                /\ stoplist'[m_last_request_optimal_vehicle]
                      # stoplist[m_last_request_optimal_vehicle]
                /\ stoplist'[m_last_request_optimal_vehicle]
                      = m_stoplist_new[m_last_request_optimal_vehicle]
                /\ \A v \in VehicleIds \ {m_last_request_optimal_vehicle} :
                      stoplist'[v] = stoplist[v]
       /\ \A request \in RequestPool :
             (submit_transportation_request(request) \/ submit_trivial(request))
                => stoplist' = stoplist]_vars

\* a commit has just been made while another vehicle held a proposal of its
\* own for the same request, which was not installed
C20_Witness ==
    /\ last.op = "execute"
    /\ last.type = "REQUESTOFFERING_EVENT"
    /\ \E v \in VehicleIds :
          /\ m_stoplist_new[v] # <<>>
          /\ m_stoplist_new[v] # stoplist[v]
          /\ Len(stoplist[v]) >= 1

\* C21: submit_transportation_request for a request with origin ==
\* destination returns a REJECTION event, queries no vehicle (no proposed
\* stoplist changes) and records no offer for that request: an
\* execute_transportation_request with that request's id issued next returns
\* REJECTION and changes no stoplist.
C21_TrivialRequestRejectedWithoutOffer ==
    [][/\ \A request \in RequestPool :
             (/\ request.origin = request.destination
              /\ submit_trivial(request) \/ submit_transportation_request(request))
                => /\ last' = Call("submit", "REQUESTREJECTION_EVENT", request.request_id)
                   /\ m_last_request' # request.request_id
                   /\ UNCHANGED <<stoplist, m_stoplist_new, m_last_request,
                                  m_last_request_optimal_vehicle>>
       /\ \A request \in RequestPool :
             (/\ request.origin = request.destination
              /\ last = Call("submit", "REQUESTREJECTION_EVENT", request.request_id)
              /\ execute_transportation_request(request.request_id))
                => /\ last'.type = "REQUESTREJECTION_EVENT"
                   /\ UNCHANGED <<stoplist, m_stoplist_new>>]_vars

\* a trivial request has just been rejected while the offer of another
\* request is pending and the vehicles hold proposals for it
C21_Witness ==
    /\ last.op = "submit"
    /\ last.type = "REQUESTREJECTION_EVENT"
    /\ RequestOf(last.requestId).origin = RequestOf(last.requestId).destination
    /\ m_last_request # 0 - 1
    /\ m_last_request # last.requestId
    /\ \E v \in VehicleIds : m_stoplist_new[v] # <<>>

\* ======================================================================
\* Properties of the C++ dispatcher
\* ======================================================================

\* what identifies a stop when its arrival time and occupancy are updated
Identity(stop) == <<stop.location, stop.request_id, stop.action>>

Without(sl, a, b) == [k \in 1..(Len(sl) - 2) |->
                         IF k < a THEN sl[k] ELSE IF k + 1 < b THEN sl[k + 1] ELSE sl[k + 2]]

\* new is sl with one PICKUP stop of the request at index i+1 and one DROPOFF
\* stop of the request at index j+2 (indices from 0)
IsInsertionOf(new, sl, request, i, j) ==
    /\ Len(new) = Len(sl) + 2
    /\ Identity(At(new, i + 1)) = <<request.origin, request.request_id, "PICKUP">>
    /\ Identity(At(new, j + 2)) = <<request.destination, request.request_id, "DROPOFF">>
    /\ LET rest == Without(new, i + 2, j + 3)
       IN  \A k \in 1..Len(sl) : Identity(rest[k]) = Identity(sl[k])

\* C13: for every feasible result of the brute-force dispatcher the new
\* stoplist consists of the input stops in their original order plus exactly
\* one PICKUP stop of the request at index i+1 and exactly one DROPOFF stop
\* of the request at index j+2, the pickup before the dropoff; every PICKUP
\* stop of the result has its matching DROPOFF stop later in the stoplist.
C13_OnePickupOneDropoffInserted ==
    (/\ dispatch.called
     /\ ~dispatch.result.thrown
     /\ dispatch.result.min_cost < INFINITY)
        => /\ \E i \in 0..(Len(dispatch.stoplist) - 1), j \in 0..(Len(dispatch.stoplist) - 1) :
                 /\ i <= j
                 /\ IsInsertionOf(dispatch.result.new_stoplist, dispatch.stoplist,
                                  dispatch.request, i, j)
           /\ PickupsMatched(dispatch.result.new_stoplist)

\* C19: the estimated in-vehicle window carried by an OFFER has min equal to
\* the EAT of the request's PICKUP stop and max equal to the EAT of the
\* request's DROPOFF stop in the chosen vehicle's proposed stoplist; both
\* values are finite and min <= max.
C19_OfferWindowIsPickupToDropoff ==
    (/\ dispatch.called
     /\ ~dispatch.result.thrown
     /\ dispatch.result.min_cost < INFINITY)
        => LET proposed == dispatch.result.new_stoplist
               window == dispatch.estimated_invehicle_time
               IsStopOf(k, action) == /\ proposed[k].request_id = dispatch.request.request_id
                                      /\ proposed[k].action = action
           IN  /\ \E k \in 1..Len(proposed) :
                     /\ IsStopOf(k, "PICKUP")
                     /\ window.min = proposed[k].estimated_arrival_time
               /\ \E k \in 1..Len(proposed) :
                     /\ IsStopOf(k, "DROPOFF")
                     /\ window.max = proposed[k].estimated_arrival_time
               /\ window.min < INFINITY
               /\ window.max < INFINITY
               /\ window.min <= window.max

\* C22: for every request with origin different from destination and every
\* stoplist, also one that consists only of the CPE, the dispatcher call of a
\* submit terminates normally: it throws no exception and reads no stoplist
\* index out of range, and it reports infeasibility only as min_cost =
\* INFINITY with an empty new stoplist.
C22_DispatchNeverThrows ==
    dispatch.called =>
        /\ ~dispatch.result.thrown
        /\ dispatch.result.min_cost <= INFINITY
        /\ (dispatch.result.min_cost = INFINITY) <=> (dispatch.result.new_stoplist = <<>>)

\* C28: every finite min_cost returned by the brute-force dispatcher is
\* >= 0, for adjacent (j = i) and for disjoint (j > i) insertions alike.
C28_MinCostNonNegative ==
    (/\ dispatch.called
     /\ ~dispatch.result.thrown
     /\ dispatch.result.min_cost < INFINITY)
        => dispatch.result.min_cost >= 0

\* the costs of the Cython dispatcher are not negative (it holds)
CythonMinCostNonNegative ==
    dispatch.called => dispatch.result.min_cost >= 0

\* the same structure in the results of the Cython dispatcher (it holds)
CythonInsertsOnePickupOneDropoff ==
    (dispatch.called /\ dispatch.result.min_cost < INFINITY)
        => /\ \E i \in 0..(Len(dispatch.stoplist) - 1), j \in 0..(Len(dispatch.stoplist) - 1) :
                 /\ i <= j
                 /\ IsInsertionOf(dispatch.result.new_stoplist, dispatch.stoplist,
                                  dispatch.request, i, j)
           /\ PickupsMatched(dispatch.result.new_stoplist)

\* ======================================================================
\* Properties of one fast-forwarded vehicle
\* ======================================================================

\* C14: after every fast_forward_time(t), estimated_arrival_time is
\* non-decreasing along the vehicle's stoplist, also between the relocated
\* head stop and the next stop and also when the vehicle has arrived at the
\* next stop but that stop's time_window.min is still later than t.
C14_ArrivalTimesNonDecreasing ==
    vehicle.forwarded => EATNonDecreasing(vehicle.stoplist)

\* C16: after every fast_forward_time(t) the head stop's EAT is <= t and, if
\* a second stop exists, t <= the second stop's EAT.
C16_HeadNotAfterNowNextNotBefore ==
    vehicle.forwarded =>
        /\ vehicle.stoplist[1].estimated_arrival_time <= vehicle.m_currentTime
        /\ Len(vehicle.stoplist) > 1
              => vehicle.m_currentTime <= vehicle.stoplist[2].estimated_arrival_time

\* ======================================================================
\* Further properties of the Cython brute-force dispatcher
\* ======================================================================

\* the feasible index pairs that attain the cost the dispatcher returned
MinimalPairs ==
    { pair \in FeasiblePairs(dispatch.stoplist, dispatch.request, dispatch.seat_capacity) :
         AddedTravelTime(dispatch.stoplist, dispatch.request, pair[1], pair[2])
            = dispatch.result.min_cost }

ComesFirst(p, q) == p[1] < q[1] \/ (p[1] = q[1] /\ p[2] <= q[2])

C23_RepeatedCallsReturnTheSame ==
    Len(dispatch.results) = MaxCalls => dispatch.results[1] = dispatch.results[2]

\* the brute-force dispatcher alone returns the same result twice
BruteForceCallsReturnTheSame ==
    (dispatch.dispatcher = "brute_force" /\ Len(dispatch.results) = MaxCalls)
        => dispatch.results[1] = dispatch.results[2]

\* C26: for a stoplist whose occupancies are all within seat_capacity, every
\* stop of the stoplist returned by simple_ellipse_dispatcher has an
\* occupancy_after_servicing of at most seat_capacity
C26_EllipseKeepsOccupancyWithinCapacity ==
    \A c \in 1..Len(dispatch.results) :
        (/\ dispatch.dispatcher = "simple_ellipse"
         /\ \A k \in 1..Len(dispatch.stoplist) :
               dispatch.stoplist[k].occupancy_after_servicing <= dispatch.seat_capacity)
            => \A k \in 1..Len(dispatch.results[c].new_stoplist) :
                  dispatch.results[c].new_stoplist[k].occupancy_after_servicing
                      <= dispatch.seat_capacity

\* ======================================================================
\* Properties of a vehicle fast-forwarded to any time
\* ======================================================================

\* C25: a fast_forward to a time before the vehicle's current time is an error
\* that changes no state, so the vehicle's current time never decreases
C25_TimeReversalChangesNothing ==
    [][/\ vehicle'.m_currentTime >= vehicle.m_currentTime
       /\ \A new_time \in 0..MaxTime :
             (/\ new_time < vehicle.m_currentTime
              /\ \/ vehicle_fast_forward_time(new_time)
                 \/ cython_vehicle_fast_forward_time(new_time))
                => /\ vehicle'.stoplist = vehicle.stoplist
                   /\ vehicle'.m_currentTime = vehicle.m_currentTime]_vars

\* ======================================================================
\* Properties of the square grid called directly
\* ======================================================================

\* the call of scenario S6: from (0,0) to (2,3) with 2.5 left to go
IsS6(call) ==
    /\ call.origin = <<0, 0>>
    /\ call.destination = <<2, 3>>
    /\ call.dist_to_dest = 5

\* C30 (as the specification states it): on SquareGrid(1, 1), interp_dist from
\* (0,0) to (2,3) with dist_to_dest = 2.5 returns the next node (2,2) and the
\* residual distance 0.5
C30_S6NextNodeIs22 ==
    (calls # NoCalls /\ calls[1].returned /\ IsS6(calls[1]))
        => /\ calls[1].result.nextLocation = <<2, 2>>
           /\ calls[1].result.distance = 1

\* C30 (amended): on SquareGrid(1, 1), interp_dist from (0,0) to (2,3) with
\* dist_to_dest = 2.5 returns the next node (2,1), which is two full edges
\* before the destination, and the residual distance 0.5
C30_S6NextNodeIs21 ==
    (calls # NoCalls /\ calls[1].returned /\ IsS6(calls[1]))
        => /\ calls[1].result.nextLocation = <<2, 1>>
           /\ calls[1].result.distance = 1

\* the call of scenario S6 has returned
C30_Witness == calls # NoCalls /\ calls[1].returned /\ IsS6(calls[1])

\* ======================================================================
\* Properties of a dispatcher call in the Euclidean plane
\* ======================================================================

\* the call of scenario S1: the vehicle idles at (0,0) and the request goes
\* from (0,0) to (3,4) with the default time windows
IsS1(call) ==
    /\ call.stoplist[1].location = R2loc(0, 0)
    /\ call.request.origin = R2loc(0, 0)
    /\ call.request.destination = R2loc(3, 4)
    /\ call.request.pickup_timewindow_min = 0
    /\ call.request.pickup_timewindow_max = INFINITY
    /\ call.request.delivery_timewindow_min = 0
    /\ call.request.delivery_timewindow_max = INFINITY

\* the dispatcher threw instead of returning
Thrown(result) == "thrown" \in DOMAIN result /\ result.thrown

\* C29 (as the specification states it): scenario S1 yields an offer whose
\* pickup has the estimated arrival time 0 and whose dropoff has the estimated
\* arrival time 5, and the dispatcher's min_cost for it is 10
C29_S1OfferWithCost10 ==
    (dispatch.called /\ IsS1(dispatch))
        => /\ ~Thrown(dispatch.result)
           /\ dispatch.result.min_cost = 10
           /\ Len(dispatch.result.new_stoplist) = 3
           /\ dispatch.result.new_stoplist[2].action = "PICKUP"
           /\ dispatch.result.new_stoplist[2].estimated_arrival_time = 0
           /\ dispatch.result.new_stoplist[3].action = "DROPOFF"
           /\ dispatch.result.new_stoplist[3].estimated_arrival_time = 5

\* what the Cython dispatcher returns for scenario S1: the offer with the
\* arrival times 0 and 5, at the cost 5 of the way from pickup to dropoff
CythonS1OfferWithCost5 ==
    (dispatch.called /\ IsS1(dispatch) /\ "thrown" \notin DOMAIN dispatch.result)
        => /\ dispatch.result.min_cost = 5
           /\ Len(dispatch.result.new_stoplist) = 3
           /\ dispatch.result.new_stoplist[2].action = "PICKUP"
           /\ dispatch.result.new_stoplist[2].estimated_arrival_time = 0
           /\ dispatch.result.new_stoplist[3].action = "DROPOFF"
           /\ dispatch.result.new_stoplist[3].estimated_arrival_time = 5

\* what the C++ dispatcher does for scenario S1: it throws
CppS1Throws ==
    (dispatch.called /\ IsS1(dispatch) /\ "thrown" \in DOMAIN dispatch.result)
        => dispatch.result.thrown

\* ======================================================================
\* Properties of the GraphSpace shared by two workers
\* ======================================================================

\* what the call returns when no other call runs at the same time
Sequential(call) ==
    IF call.op = "d" THEN [distance |-> dijkstra_shortest_paths(call.u).second[call.v]]
    ELSE IF call.u = call.v THEN [vertex |-> call.v, residual |-> 0]
    ELSE LET walk == WalkBack(dijkstra_shortest_paths(call.u).first, call.u, call.v, 0,
                              call.dist_to_dest)
         IN  [vertex |-> walk.vertex, residual |-> walk.residual]

\* C27: when two workers call d or interp_dist on the shared GraphSpace with
\* different source vertices, every call returns what it returns in a
\* sequential execution, however their reads and writes of the cache and of
\* _predecessors and _distances interleave
C27_ConcurrentCallsReturnSequentialValues ==
    \A w \in Workers :
        (space.kind = "GraphSpace" /\ calls[w].pc = "returned")
            => calls[w].result = Sequential(calls[w])

\* ======================================================================
\* What one fast_forward_time services
\* ======================================================================

\* the number of stops after the head of sl, counted from the 1-based position
\* k, that form the maximal prefix with max(EAT, time_window.min) <= new_time
RECURSIVE DuePrefix(_, _, _)
DuePrefix(sl, k, new_time) ==
    IF k > Len(sl) THEN 0
    ELSE IF Max(sl[k].estimated_arrival_time, sl[k].time_window_min) <= new_time
         THEN 1 + DuePrefix(sl, k + 1, new_time)
         ELSE 0

\* the fields of an event, whichever struct the implementation returns
EventFields(e) ==
    IF "requestId" \in DOMAIN e
    THEN <<e.action, e.requestId, e.vehicleId, e.timestamp>>
    ELSE <<e.action, e.request_id, e.vehicle_id, e.timestamp>>

\* C31: fast_forward_time(t) emits, in stoplist order, one StopEvent for exactly
\* the stops after the head that form the maximal prefix with
\* max(EAT, time_window.min) <= t, each with that service time as timestamp and
\* with the stop's action, request id and the vehicle id; exactly these stops
\* leave the pending stops (the stops after the head), and all later stops
\* remain unchanged and in order.
C31_ServicesTheMaximalDuePrefix ==
    vehicle.forwarded =>
        LET sl == vehicle.previous
            n == DuePrefix(sl, 2, vehicle.m_currentTime)
        IN  /\ Len(vehicle.events) = n
            /\ \A k \in 1..n :
                  EventFields(vehicle.events[k]) =
                      <<sl[k + 1].action, sl[k + 1].request_id, 0,
                        Max(sl[k + 1].estimated_arrival_time, sl[k + 1].time_window_min)>>
            /\ Tail(vehicle.stoplist) = SubSeq(sl, n + 2, Len(sl))

\* a call that services a stop which waited for its time window and leaves a
\* later stop pending
C31_Witness ==
    /\ vehicle.forwarded
    /\ Len(vehicle.events) = 1
    /\ Len(vehicle.stoplist) = 2
    /\ vehicle.previous[2].time_window_min > vehicle.previous[2].estimated_arrival_time
    /\ C31_ServicesTheMaximalDuePrefix

\* ======================================================================
\* Where one fast_forward_time puts the head
\* ======================================================================

\* the last stop serviced by the call that returned `serviced` events, or the
\* previous head if none was
LastServiced(sl, serviced) == IF serviced > 0 THEN sl[serviced + 1] ELSE sl[1]

\* location and EAT of the head as step 4 of fast_forward_time(new_time) states them
Relocated(sl, serviced, new_time) ==
    LET last_serviced == LastServiced(sl, serviced)
    IN  IF Len(sl) > serviced + 1
        THEN LET next == sl[serviced + 2]
                 interp == interp_time(last_serviced.location, next.location,
                                       next.estimated_arrival_time - new_time)
             IN  <<interp.nextLocation, new_time + interp.distance>>
        ELSE <<last_serviced.location, new_time>>

HeadPosition(sl) == <<sl[1].location, sl[1].estimated_arrival_time>>

\* C32: after fast_forward_time(t), with last_serviced the last stop serviced in
\* this call (or the previous head if none was): if a stop remains after the
\* head, the head's location and EAT are loc and t + residual where
\* (loc, residual) = interp_time(last_serviced.location, stoplist[1].location,
\* stoplist[1].EAT - t); otherwise the head is at last_serviced.location with
\* EAT = t.
C32_HeadIsRelocated ==
    vehicle.forwarded =>
        HeadPosition(vehicle.stoplist)
            = Relocated(vehicle.previous, Len(vehicle.events), vehicle.m_currentTime)

\* the same where no stop of the vehicle waits for its time window to open, so
\* that interp_time is never called with a negative time_to_dest
HeadIsRelocatedWithoutWaiting ==
    (/\ vehicle.forwarded
     /\ \A k \in 1..Len(vehicle.previous) : vehicle.previous[k].time_window_min = 0)
        => HeadPosition(vehicle.stoplist)
               = Relocated(vehicle.previous, Len(vehicle.events), vehicle.m_currentTime)

\* ======================================================================
\* The occupancy one fast_forward_time leaves at the head
\* ======================================================================

\* the requests on board when the vehicle was constructed: their PICKUP was
\* emitted before
OnBoardAtConstruction(sl) ==
    { sl[k].request_id : k \in { h \in 2..Len(sl) :
                                   /\ sl[h].action = "DROPOFF"
                                   /\ \A g \in 2..(h - 1) : sl[g].request_id # sl[h].request_id } }

\* the requests of which an event of the given action has been emitted
EmittedRequests(events, action) ==
    { EventFields(events[k])[2] : k \in { h \in 1..Len(events) :
                                            EventFields(events[h])[1] = action } }

\* the requests picked up and not yet dropped off
InVehicle ==
    (OnBoardAtConstruction(vehicle.initial) \cup EmittedRequests(vehicle.emitted, "PICKUP"))
        \ EmittedRequests(vehicle.emitted, "DROPOFF")

\* C33: after every fast_forward_time, the head stop's
\* occupancy_after_servicing equals the occupancy of the last serviced stop,
\* which equals the number of requests of that vehicle whose PICKUP event has
\* been emitted and whose DROPOFF event has not yet been emitted.
C33_HeadOccupancyIsPassengersOnBoard ==
    vehicle.forwarded =>
        /\ vehicle.stoplist[1].occupancy_after_servicing
              = LastServiced(vehicle.previous, Len(vehicle.events)).occupancy_after_servicing
        /\ vehicle.stoplist[1].occupancy_after_servicing = Cardinality(InVehicle)

\* a call that picked a passenger up, after which the passenger is on board
C33_Witness ==
    /\ vehicle.forwarded
    /\ Len(vehicle.events) > 0
    /\ EventFields(vehicle.events[Len(vehicle.events)])[1] = "PICKUP"
    /\ vehicle.stoplist[1].occupancy_after_servicing = 1
    /\ Cardinality(InVehicle) = 1

\* ======================================================================
\* The time-window check against the propagation of the delay
\* ======================================================================

\* some stop from the 0-based index k on arrives after its time_window.max when
\* stop k arrives at new_eat and every stop behind it is reached by driving
\* first from the new departure of the stop before it
RECURSIVE SomeStopLate(_, _, _)
SomeStopLate(sl, k, new_eat) ==
    LET stop == At(sl, k)
        new_departure == Max(stop.time_window_min, new_eat)
    IN  IF new_eat > stop.time_window_max THEN TRUE
        ELSE IF k = Len(sl) - 1 THEN FALSE
        ELSE SomeStopLate(sl, k + 1,
                 At(sl, k + 1).estimated_arrival_time
                   + (new_departure - estimated_departure_time(stop)))

\* C34: the time-window propagation check for an insertion after index k with
\* arrival time a at stop k+1 returns violated iff, when stop k+1 is given
\* arrival time a and the delay is propagated drive-first through the following
\* stops (shrinking where a stop waits for its time_window.min), some stop's
\* new EAT exceeds its time_window.max; it returns not violated when the delay
\* is fully absorbed and when the end of the list is reached without such an
\* excess.
C34_CheckIsThePropagation ==
    (calls # NoCalls /\ calls[1].op = "timewindow_check" /\ calls[1].returned
       /\ calls[1].idx + 1 <= Len(calls[1].stoplist) - 1)
        => (calls[1].result = "violated"
              <=> SomeStopLate(calls[1].stoplist, calls[1].idx + 1, calls[1].est_arrival))

\* the same of the Cython check alone
CythonCheckIsThePropagation ==
    (calls # NoCalls /\ calls[1].op = "timewindow_check" /\ calls[1].impl = "cython")
        => C34_CheckIsThePropagation

\* ======================================================================
\* SquareGrid::interp_dist along the path of the vehicle
\* ======================================================================

Between(x, a, b) == (a <= x /\ x <= b) \/ (b <= x /\ x <= a)

\* n lies on the path from u along the first axis to (v.first, u.second) and
\* then along the second axis to v
OnGridPath(u, v, n) ==
    \/ n[2] = u[2] /\ Between(n[1], u[1], v[1])
    \/ n[1] = v[1] /\ Between(n[2], u[2], v[2])

\* d of the grid the call works on
GridDistance(gridSize, u, v) == gridSize * (Abs(u[1] - v[1]) + Abs(u[2] - v[2]))

\* C35: for all grid nodes u, v and every r with 0 <= r <= d(u,v),
\* SquareGrid.interp_dist(u, v, r) returns a node n on the path that runs from u
\* along the first axis to (v.first, u.second) and then along the second axis
\* to v, together with a residual rho such that 0 <= rho < g and
\* d(n, v) + rho = r.
C35_NextNodeOnPathWithResidual ==
    (calls # NoCalls /\ calls[1].op = "interp_dist" /\ calls[1].returned
       /\ calls[1].dist_to_dest >= 0
       /\ calls[1].dist_to_dest
             <= GridDistance(space.m_gridSize, calls[1].origin, calls[1].destination))
        => LET n == calls[1].result.nextLocation
               rho == calls[1].result.distance
           IN  /\ OnGridPath(calls[1].origin, calls[1].destination, n)
               /\ 0 <= rho
               /\ rho < space.m_gridSize
               /\ GridDistance(space.m_gridSize, n, calls[1].destination) + rho
                     = calls[1].dist_to_dest

\* a call on a path with a corner, half way along an edge of the first axis
C35_Witness ==
    /\ calls # NoCalls
    /\ calls[1].op = "interp_dist"
    /\ calls[1].returned
    /\ calls[1].origin[1] # calls[1].destination[1]
    /\ calls[1].origin[2] # calls[1].destination[2]
    /\ calls[1].result.distance > 0
    /\ calls[1].result.nextLocation[1] # calls[1].destination[1]
    /\ calls[1].result.nextLocation # calls[1].origin
    /\ C35_NextNodeOnPathWithResidual

\* ======================================================================
\* interp_dist of a vehicle that has not left the origin
\* ======================================================================

\* C36: for SquareGrid and GraphSpace, interp_dist(u, u, r) returns (u, 0) for
\* every r >= 0, and interp_dist(u, v, r) returns location u whenever
\* r >= d(u, v).
C36_NotYetLeftTheOrigin ==
    (calls # NoCalls /\ calls[1].op = "interp_dist" /\ space.kind = "SquareGrid"
       /\ calls[1].returned)
        => LET u == calls[1].origin
               v == calls[1].destination
           IN  /\ u = v => /\ calls[1].result.nextLocation = u
                            /\ calls[1].result.distance = 0
               /\ calls[1].dist_to_dest >= GridDistance(space.m_gridSize, u, v)
                     => calls[1].result.nextLocation = u

\* the same of GraphSpace::interp_dist, called by one caller
GraphSpaceNotYetLeftTheOrigin ==
    (calls # NoCalls /\ calls[1].op = "interp_dist" /\ space.kind = "GraphSpace"
       /\ calls[1].pc = "returned")
        => /\ calls[1].u = calls[1].v
                => calls[1].result = [vertex |-> calls[1].u, residual |-> 0]
           /\ calls[1].dist_to_dest >= dijkstra_shortest_paths(calls[1].u).second[calls[1].v]
                => calls[1].result.vertex = calls[1].u

\* ======================================================================
\* GraphSpace::interp_dist along the shortest path
\* ======================================================================

\* the vertices of the path from u to v that the predecessor map of the source
\* u gives, walked back from v
RECURSIVE PathVertices(_, _, _)
PathVertices(predecessors, u, v) ==
    IF v = u THEN {u} ELSE {v} \cup PathVertices(predecessors, u, predecessors[v])

\* a call of interp_dist between distinct vertices with 0 <= r <= d(u, v)
OnTheWay(call) ==
    /\ call.op = "interp_dist"
    /\ call.u # call.v
    /\ call.dist_to_dest >= 0
    /\ call.dist_to_dest <= dijkstra_shortest_paths(call.u).second[call.v]

\* the vertex and the residual the claim asks for
PointOnShortestPath(call) ==
    LET shortest == dijkstra_shortest_paths(call.u)
        w == call.result.vertex
        rho == call.result.residual
    IN  /\ w \in PathVertices(shortest.first, call.u, call.v)
        /\ (shortest.second[call.v] - shortest.second[w]) + rho = call.dist_to_dest
        /\ 0 <= rho
        /\ IF w = call.u THEN rho = 0 ELSE rho < edge_weight(shortest.first[w], w)

\* C37: for a connected graph with positive edge weights, distinct vertices
\* u, v and every r with 0 <= r <= d(u,v), GraphSpace.interp_dist(u, v, r)
\* terminates and returns a vertex w on the shortest u-v path given by the
\* predecessor map and a residual rho such that d(w, v) + rho = r and
\* 0 <= rho < weight of the path edge entering w.
C37_InterpDistReturnsPointOnShortestPath ==
    /\ [](calls # NoCalls /\ space.kind = "GraphSpace" /\ OnTheWay(calls[1])
             /\ calls[1].pc = "returned"
           => PointOnShortestPath(calls[1]))
    /\ (calls # NoCalls /\ space.kind = "GraphSpace" /\ OnTheWay(calls[1]))
           ~> (calls[1].pc = "returned")

\* a call that returns a vertex inside the path while the vehicle is half way
\* along the edge that enters it
C37_Witness ==
    /\ calls # NoCalls
    /\ space.kind = "GraphSpace"
    /\ OnTheWay(calls[1])
    /\ calls[1].pc = "returned"
    /\ calls[1].result.vertex \notin {calls[1].u, calls[1].v}
    /\ calls[1].result.residual = 1
    /\ PointOnShortestPath(calls[1])

\* ======================================================================
\* Two fast_forward_time calls against one
\* ======================================================================

\* one call of the vehicle's fast_forward_time on the stoplist sl
OneCall(impl, sl, new_time) ==
    IF impl = "cpp" THEN fast_forward_time(sl, 0, new_time)
    ELSE cython_fast_forward_time(sl, 0, new_time)

\* C38: for t1 <= t2 and a vehicle whose stoplist satisfies the stoplist
\* invariants, fast_forward_time(t1) followed by fast_forward_time(t2) yields
\* the same stoplist and the same concatenated event list as a single
\* fast_forward_time(t2); in particular a second fast_forward_time(t) with the
\* same t emits no events and leaves the stoplist unchanged.
C38_TwoCallsAreOneCall ==
    (vehicle.constructed /\ vehicle.forward_calls = 2)
        => LET single == OneCall(vehicle.impl, vehicle.initial, vehicle.m_currentTime)
           IN  /\ vehicle.stoplist = single.stoplist
               /\ vehicle.emitted = single.events

\* the same where no stop of the vehicle waits for its time window to open
TwoCallsAreOneCallWithoutWaiting ==
    (/\ vehicle.constructed
     /\ vehicle.forward_calls = 2
     /\ \A k \in 1..Len(vehicle.initial) : vehicle.initial[k].time_window_min = 0)
        => LET single == OneCall(vehicle.impl, vehicle.initial, vehicle.m_currentTime)
           IN  /\ vehicle.stoplist = single.stoplist
               /\ vehicle.emitted = single.events

\* ======================================================================
\* Committed requests are served when time passes their last stop
\* ======================================================================

\* the fast_forward of this step is called at or beyond the departure time of
\* the last stop of vehicle v, which has stops pending
PassesLastStop(v) ==
    /\ last'.op = "fast_forward"
    /\ last'.type # "CRASH"
    /\ Len(stoplist[v]) >= 2
    /\ ff_last'.t >= estimated_departure_time(stoplist[v][Len(stoplist[v])])

\* every pending stop of a committed request on vehicle v has its event, with
\* the id of the vehicle, in the given events
PendingStopsAreIn(v, events) ==
    \A k \in 2..Len(stoplist[v]) :
        stoplist[v][k].request_id \in committed
           => \E h \in 1..Len(events) :
                 /\ events[h].action = stoplist[v][k].action
                 /\ events[h].requestId = stoplist[v][k].request_id
                 /\ events[h].vehicleId = v

\* C39: every accepted request is eventually served as time advances: if a
\* request was committed and no further request is committed afterwards, then
\* once fast_forward has been called with a t at or beyond the departure time
\* of the last stop of the chosen vehicle, the request's PICKUP and DROPOFF
\* events have both been returned and that vehicle's stoplist consists of the
\* head stop only.  Stated of the call that passes the last stop: it returns
\* the event of every stop that was still pending and leaves the head alone.
C39_CommittedRequestsAreServed ==
    [][\A v \in VehicleIds :
          PassesLastStop(v) => /\ PendingStopsAreIn(v, ff_last'.returned)
                               /\ Len(stoplist'[v]) = 1]_vars

\* the same of the events the vehicles hand to FleetState::fast_forward, before
\* it merges them
VehiclesEmitEveryPendingStop ==
    [][\A v \in VehicleIds :
          PassesLastStop(v) => /\ PendingStopsAreIn(v, ff_last'.emitted)
                               /\ Len(stoplist'[v]) = 1]_vars

\* ======================================================================
\* The StopEvents of a request over all calls of the fleet
\* ======================================================================

\* the positions of the log that hold a returned StopEvent
StopEventsLogged == { k \in 1..Len(calls) : calls[k].action \in {"PICKUP", "DROPOFF"} }

====
